---- MODULE Spec2Model ----
(***************************************************************************)
(* IHT seller net sheet: the owner's-policy premium lookup, the county fee *)
(* schedules and the seller title-fee aggregator, with the form state of   *)
(* IHTSellerNetSheetApp that feeds them.                                   *)
(*                                                                         *)
(* Text is a sequence of one-character strings.  Money is an integer count *)
(* of thousandths of a dollar (Dollars(1) = 1000), which is exact for the  *)
(* amounts used here: entered amounts carry at most three decimals.        *)
(***************************************************************************)
EXTENDS Integers, Sequences, FiniteSets, TLC

Dollars(n) == n * 1000

Min(S) == CHOOSE x \in S : \A y \in S : x <= y

Max(S) == CHOOSE x \in S : \A y \in S : x >= y

Range(s) == {s[i] : i \in 1..Len(s)}

\* ---------------------------------------------------------------------
\* Utilities
\* ---------------------------------------------------------------------

DigitChars == <<"0", "1", "2", "3", "4", "5", "6", "7", "8", "9">>

UpperCaseChars == <<"A", "B", "C", "D", "E", "F", "G", "H", "I", "J", "K", "L", "M", "N", "O", "P", "Q", "R", "S", "T", "U", "V", "W", "X", "Y", "Z">>

LowerCaseChars == <<"a", "b", "c", "d", "e", "f", "g", "h", "i", "j", "k", "l", "m", "n", "o", "p", "q", "r", "s", "t", "u", "v", "w", "x", "y", "z">>

\* The characters the regular expression class \s and String.trim remove.
Whitespace == {" ", "\t", "\n"}

IsDigit(c) == c \in Range(DigitChars)

DigitValue(c) == (CHOOSE i \in 1..10 : DigitChars[i] = c) - 1

\* String.prototype.toLowerCase, one character.
toLowerCaseChar(c) ==
    IF c \in Range(UpperCaseChars)
    THEN LowerCaseChars[CHOOSE i \in 1..26 : UpperCaseChars[i] = c]
    ELSE c

toLowerCase(s) == [i \in 1..Len(s) |-> toLowerCaseChar(s[i])]

\* String.prototype.trim: whitespace off both ends, inner whitespace kept.
trim(s) ==
    LET keep == {i \in 1..Len(s) : s[i] \notin Whitespace}
    IN  IF keep = {} THEN <<>> ELSE SubSeq(s, Min(keep), Max(keep))

\* Math.round((n + Number.EPSILON) * 100) / 100: to the nearest cent, a half
\* cent going up (Math.round rounds halves toward +Infinity).
round2ToNextCent(n) == ((n + 10) \div 10) * 10

round2(n) == ((n + 5) \div 10) * 10

RECURSIVE DigitsValue(_)
DigitsValue(ds) ==
    IF ds = <<>> THEN 0
    ELSE DigitsValue(SubSeq(ds, 1, Len(ds) - 1)) * 10 + DigitValue(ds[Len(ds)])

\* Whether Number(t) is a finite number, for text t without whitespace: the
\* empty text (0), or an optional sign, digits with at most one "." and at
\* least one digit.  Every other text of the model's alphabet is NaN.
NumberIsFinite(t) ==
    LET body == IF t # <<>> /\ t[1] \in {"-", "+"} THEN Tail(t) ELSE t
    IN  \/ t = <<>>
        \/ /\ \A i \in 1..Len(body) : IsDigit(body[i]) \/ body[i] = "."
           /\ Cardinality({i \in 1..Len(body) : body[i] = "."}) <= 1
           /\ \E i \in 1..Len(body) : IsDigit(body[i])

\* Number(t) for a text NumberIsFinite accepts.
NumberValue(t) ==
    LET neg  == t # <<>> /\ t[1] = "-"
        body == IF t # <<>> /\ t[1] \in {"-", "+"} THEN Tail(t) ELSE t
        dots == {i \in 1..Len(body) : body[i] = "."}
        dot  == IF dots = {} THEN Len(body) + 1 ELSE Min(dots)
        int  == SubSeq(body, 1, dot - 1)
        frac == SubSeq(body, dot + 1, Len(body))
        pad  == SubSeq(frac \o <<"0", "0", "0">>, 1, 3)
        mag  == Dollars(DigitsValue(int)) + DigitsValue(pad)
    IN  IF neg THEN 0 - mag ELSE mag

parseNumber(value) ==
    LET cleaned == SelectSeq(value, LAMBDA c : c \notin ({"$", ","} \cup Whitespace))
    IN  IF NumberIsFinite(cleaned) THEN NumberValue(cleaned) ELSE 0

formatInputMoney(value) ==
    SelectSeq(value, LAMBDA c : IsDigit(c) \/ c \in {".", ",", "$"})

formatInputPercent(value) == SelectSeq(value, LAMBDA c : IsDigit(c) \/ c = ".")

\* ---------------------------------------------------------------------
\* Owner's policy premium (from the fee sheet chart)
\* ---------------------------------------------------------------------

\* The chart's lines, each lo,hi,min,max in whole dollars.
OWNER_POLICY_RANGE_CSV == <<
    <<0, 50000, 209, 220>>,
    <<50001, 60000, 225, 263>>,
    <<60001, 70000, 268, 306>>,
    <<70001, 80000, 311, 349>>,
    <<80001, 90000, 353, 392>>,
    <<90001, 100000, 396, 435>>,
    <<100001, 110000, 438, 462>>,
    <<110001, 120000, 465, 490>>,
    <<120001, 130000, 493, 517>>,
    <<130001, 140000, 520, 545>>,
    <<140001, 150000, 548, 572>>,
    <<150001, 160000, 575, 600>>,
    <<160001, 170000, 603, 627>>,
    <<170001, 180000, 630, 655>>,
    <<180001, 190000, 658, 682>>,
    <<190001, 200000, 685, 710>>,
    <<200001, 210000, 713, 737>>,
    <<210001, 220000, 740, 765>>,
    <<220001, 230000, 768, 792>>,
    <<230001, 240000, 795, 820>>,
    <<240001, 250000, 823, 847>>,
    <<250001, 260000, 850, 875>>,
    <<260001, 270000, 878, 902>>,
    <<270001, 280000, 905, 930>>,
    <<280001, 290000, 933, 957>>,
    <<290001, 300000, 960, 985>>,
    <<300001, 310000, 988, 1012>>,
    <<310001, 320000, 1015, 1040>>,
    <<320001, 330000, 1043, 1067>>,
    <<330001, 340000, 1070, 1095>>,
    <<340001, 350000, 1098, 1122>>,
    <<350001, 360000, 1125, 1147>>,
    <<360001, 370000, 1150, 1172>>,
    <<370001, 380000, 1174, 1197>>,
    <<380001, 390000, 1199, 1221>>,
    <<390001, 400000, 1224, 1246>>,
    <<400001, 410000, 1249, 1271>>,
    <<410001, 420000, 1273, 1296>>,
    <<420001, 430000, 1298, 1320>>,
    <<430001, 440000, 1323, 1345>>,
    <<440001, 450000, 1348, 1370>>,
    <<450001, 460000, 1372, 1395>>,
    <<460001, 470000, 1397, 1419>>,
    <<470001, 480000, 1422, 1444>>,
    <<480001, 490000, 1447, 1469>>,
    <<490001, 500000, 1471, 1494>>,
    <<500001, 510000, 1496, 1518>>,
    <<510001, 520000, 1521, 1543>>,
    <<520001, 530000, 1546, 1568>>,
    <<530001, 540000, 1570, 1593>>,
    <<540001, 550000, 1595, 1617>>,
    <<550001, 560000, 1620, 1642>>,
    <<560001, 570000, 1645, 1667>>,
    <<570001, 580000, 1669, 1692>>,
    <<580001, 590000, 1694, 1716>>,
    <<590001, 600000, 1719, 1741>>,
    <<600001, 610000, 1743, 1762>>,
    <<610001, 620000, 1764, 1783>>,
    <<620001, 630000, 1785, 1804>>,
    <<630001, 640000, 1806, 1825>>,
    <<640001, 650000, 1827, 1846>>,
    <<650001, 660000, 1848, 1868>>,
    <<660001, 670000, 1869, 1894>>,
    <<670001, 680000, 1890, 1919>>,
    <<680001, 690000, 1911, 1944>>,
    <<690001, 700000, 1931, 1969>>,
    <<700001, 710000, 1952, 1995>>,
    <<710001, 720000, 1973, 2020>>,
    <<720001, 730000, 1994, 2045>>,
    <<730001, 740000, 2015, 2071>>,
    <<740001, 750000, 2036, 2096>>,
    <<750001, 760000, 2057, 2121>>,
    <<760001, 770000, 2078, 2147>>,
    <<770001, 780000, 2099, 2172>>,
    <<780001, 790000, 2120, 2197>>,
    <<790001, 800000, 2140, 2222>>,
    <<800001, 810000, 2161, 2248>>,
    <<810001, 820000, 2182, 2273>>,
    <<820001, 830000, 2203, 2298>>,
    <<830001, 840000, 2224, 2324>>,
    <<840001, 850000, 2245, 2349>>,
    <<850001, 860000, 2266, 2374>>,
    <<860001, 870000, 2287, 2400>>,
    <<870001, 880000, 2308, 2425>>,
    <<880001, 890000, 2329, 2450>>,
    <<890001, 900000, 2349, 2475>>,
    <<900001, 910000, 2370, 2501>>,
    <<910001, 920000, 2391, 2526>>,
    <<920001, 930000, 2412, 2551>>,
    <<930001, 940000, 2433, 2577>>,
    <<940001, 950000, 2454, 2602>>,
    <<950001, 960000, 2475, 2627>>,
    <<960001, 970000, 2496, 2653>>,
    <<970001, 980000, 2517, 2678>>,
    <<980001, 990000, 2538, 2703>>,
    <<990001, 1000000, 2558, 2728>>
>>

\* A variant of the chart's parse that takes the last two columns in the
\* opposite order.
OWNER_POLICY_TABLE_ColumnsSwapped ==
    [i \in 1..Len(OWNER_POLICY_RANGE_CSV) |->
        [lo  |-> OWNER_POLICY_RANGE_CSV[i][1], hi  |-> OWNER_POLICY_RANGE_CSV[i][2],
         min |-> OWNER_POLICY_RANGE_CSV[i][4], max |-> OWNER_POLICY_RANGE_CSV[i][3]]]

OWNER_POLICY_TABLE ==
    [i \in 1..Len(OWNER_POLICY_RANGE_CSV) |->
        [lo  |-> OWNER_POLICY_RANGE_CSV[i][1], hi  |-> OWNER_POLICY_RANGE_CSV[i][2],
         min |-> OWNER_POLICY_RANGE_CSV[i][3], max |-> OWNER_POLICY_RANGE_CSV[i][4]]]

\* A variant of the row search that excludes a row's upper end.
findRowExclusiveHi(amt) ==
    LET hits == {i \in 1..Len(OWNER_POLICY_TABLE) :
                    /\ amt >= Dollars(OWNER_POLICY_TABLE[i].lo)
                    /\ amt < Dollars(OWNER_POLICY_TABLE[i].hi)}
    IN  IF hits = {} THEN 0 ELSE Min(hits)

\* OWNER_POLICY_TABLE.find((r) => amt >= r.lo && amt <= r.hi): the index of
\* the first matching row, 0 when find returns undefined.
findRow(amt) ==
    LET hits == {i \in 1..Len(OWNER_POLICY_TABLE) :
                    /\ amt >= Dollars(OWNER_POLICY_TABLE[i].lo)
                    /\ amt <= Dollars(OWNER_POLICY_TABLE[i].hi)}
    IN  IF hits = {} THEN 0 ELSE Min(hits)

\* A variant of the lookup that counts only completed 10,000-dollar units
\* above the chart (Math.floor in place of Math.ceil).
calcOwnersPolicyPremiumFloor(liabilityAmount, choice) ==
    LET amt == IF liabilityAmount > 0 THEN liabilityAmount ELSE 0
    IN  IF amt > Dollars(1000000)
        THEN LET over         == amt - Dollars(1000000)
                 tenThousands == over \div Dollars(10000)
                 premium      == Dollars(2728) + Dollars(22) * tenThousands
             IN  [min |-> premium, max |-> premium, chosen |-> premium, mode |-> "above_1m"]
        ELSE LET found  == findRow(amt)
                 row    == IF found # 0 THEN OWNER_POLICY_TABLE[found] ELSE OWNER_POLICY_TABLE[1]
                 mid    == round2((Dollars(row.min) + Dollars(row.max)) \div 2)
                 chosen == IF choice = "low" THEN Dollars(row.min)
                           ELSE IF choice = "high" THEN Dollars(row.max) ELSE mid
             IN  [min |-> Dollars(row.min), max |-> Dollars(row.max),
                  chosen |-> round2(chosen), mode |-> "table"]

calcOwnersPolicyPremium(liabilityAmount, choice) ==
    LET amt == IF liabilityAmount > 0 THEN liabilityAmount ELSE 0
    IN  IF amt > Dollars(1000000)
        THEN LET over         == amt - Dollars(1000000)
                 tenThousands == (over + Dollars(10000) - 1) \div Dollars(10000)
                 premium      == Dollars(2728) + Dollars(22) * tenThousands
             IN  [min |-> premium, max |-> premium, chosen |-> premium, mode |-> "above_1m"]
        ELSE LET found  == findRow(amt)
                 row    == IF found # 0 THEN OWNER_POLICY_TABLE[found] ELSE OWNER_POLICY_TABLE[1]
                 mid    == round2((Dollars(row.min) + Dollars(row.max)) \div 2)
                 chosen == IF choice = "low" THEN Dollars(row.min)
                           ELSE IF choice = "high" THEN Dollars(row.max) ELSE mid
             IN  [min |-> Dollars(row.min), max |-> Dollars(row.max),
                  chosen |-> round2(chosen), mode |-> "table"]

\* ---------------------------------------------------------------------
\* IHT seller title fees (standard vs. Valparaiso schedule)
\* ---------------------------------------------------------------------

STANDARD_SCHEDULE ==
    [settlementWithLoanSeller |-> Dollars(390),
     settlementCashSeller     |-> Dollars(290),
     titleProcessingSeller    |-> Dollars(175),
     closingProcessingSeller  |-> Dollars(150),
     cplSeller                |-> Dollars(25),
     tieffSeller              |-> Dollars(5),
     deedRecordingMarion      |-> Dollars(35),
     deedRecordingOther       |-> Dollars(25),
     simplifilePerDoc         |-> 4250,
     transferPlusSDF          |-> Dollars(30)]

VALPO_SCHEDULE ==
    [settlementWithLoanSeller |-> Dollars(390),
     settlementCashSeller     |-> Dollars(290),
     titleProcessingSeller    |-> Dollars(225),
     closingProcessingSeller  |-> Dollars(175),
     cplSeller                |-> Dollars(25),
     tieffSeller              |-> Dollars(5),
     deedRecordingMarion      |-> Dollars(35),
     deedRecordingOther       |-> Dollars(25),
     simplifilePerDoc         |-> 4250,
     transferPlusSDF          |-> Dollars(30)]

\* The county names of the Valparaiso schedule as the source spells them.
VALPO_COUNTY_NAMES ==
    {
     <<"L", "a", "k", "e">>,
     <<"P", "o", "r", "t", "e", "r">>,
     <<"L", "a", "P", "o", "r", "t", "e">>,
     <<"S", "t", ".", " ", "J", "o", "s", "e", "p", "h">>,
     <<"E", "l", "k", "h", "a", "r", "t">>,
     <<"K", "o", "s", "c", "i", "u", "s", "k", "o">>,
     <<"M", "a", "r", "s", "h", "a", "l", "l">>,
     <<"F", "u", "l", "t", "o", "n">>,
     <<"P", "u", "l", "a", "s", "k", "i">>,
     <<"S", "t", "a", "r", "k", "e">>,
     <<"J", "a", "s", "p", "e", "r">>,
     <<"N", "e", "w", "t", "o", "n">>,
     <<"W", "h", "i", "t", "e">>,
     <<"C", "a", "s", "s">>
    }

VALPO_COUNTIES == {toLowerCase(x) : x \in VALPO_COUNTY_NAMES}

\* A variant of the resolver that lower-cases the county without trimming it.
getFeeScheduleForCountyUntrimmed(county) ==
    LET key == toLowerCase(county)
    IN  IF key \in VALPO_COUNTIES THEN VALPO_SCHEDULE ELSE STANDARD_SCHEDULE

getFeeScheduleForCounty(county) ==
    LET key == toLowerCase(trim(county))
    IN  IF key \in VALPO_COUNTIES THEN VALPO_SCHEDULE ELSE STANDARD_SCHEDULE

\* The item labels, in the spelling of the source (the apostrophe in ASCII).
LabelPremium == "Owner's title policy (estimate)"

LabelSettlement == "Settlement / closing fee (seller)"

LabelTitleProcessing == "Title processing fee (seller)"

LabelClosingProcessing == "Closing processing fee (seller)"

LabelCPL == "CPL (seller)"

LabelTIEFF == "TIEFF (seller)"

LabelDeedRecording == "Recording fee: deed"

LabelSimplifile == "Simplifile submission (deed)"

LabelTransfer == "County transfer fee + SDF"

Item(label, amount) == [label |-> label, amount |-> amount]

\* items.push(x) when cond holds.
PushIf(cond, items, x) == IF cond THEN Append(items, x) ELSE items

RECURSIVE SumAmounts(_)
\* items.reduce((sum, x) => sum + (x.amount || 0), 0)
SumAmounts(items) ==
    IF items = <<>> THEN 0
    ELSE SumAmounts(SubSeq(items, 1, Len(items) - 1)) + items[Len(items)].amount

\* The statements of calcIhtSellerTitleFees that push onto its items array,
\* one operator per statement, each from the array so far to the array after.
pushPremium(items, s) ==
    PushIf(s.ownerPolicyPremium > 0, items, Item(LabelPremium, s.ownerPolicyPremium))

pushSettlement(items, s, schedule) ==
    LET fullSettlement == IF s.transactionType = "with_loan"
                          THEN schedule.settlementWithLoanSeller
                          ELSE schedule.settlementCashSeller
        settlement     == round2(fullSettlement \div 2)
    IN  PushIf(s.includeSettlementFee, items, Item(LabelSettlement, settlement))

pushProcessing(items, schedule) ==
    Append(Append(items, Item(LabelTitleProcessing, schedule.titleProcessingSeller)),
           Item(LabelClosingProcessing, schedule.closingProcessingSeller))

\* A variant that takes the CPL line's inclusion from the TIEFF toggle.
pushCPLByTIEFFToggle(items, s, schedule) ==
    PushIf(s.includeTIEFF, items, Item(LabelCPL, schedule.cplSeller))

pushCPL(items, s, schedule) ==
    PushIf(s.includeCPL, items, Item(LabelCPL, schedule.cplSeller))

pushTIEFF(items, s, schedule) ==
    PushIf(s.includeTIEFF, items, Item(LabelTIEFF, schedule.tieffSeller))

\* A variant of the Marion test that compares the county text as given.
isMarionExact(county) == county = <<"M", "a", "r", "i", "o", "n">>

\* (s.county || "").trim().toLowerCase() === "marion"
isMarion(county) == toLowerCase(trim(county)) = <<"m", "a", "r", "i", "o", "n">>

pushDeedRecording(items, s, schedule) ==
    LET deedRecording == IF isMarion(s.county) THEN schedule.deedRecordingMarion
                         ELSE schedule.deedRecordingOther
        withDeed      == Append(items, Item(LabelDeedRecording, deedRecording))
    IN  IF s.includeDeedRecording
        THEN PushIf(s.useSimplifile, withDeed, Item(LabelSimplifile, schedule.simplifilePerDoc))
        ELSE items

pushTransfer(items, s, schedule) ==
    PushIf(s.includeTransferFeeSDF, items, Item(LabelTransfer, schedule.transferPlusSDF))

\* A variant that pushes the transfer line before the deed recording lines.
titleFeeItemsTransferEarly(s) ==
    LET schedule == getFeeScheduleForCounty(s.county)
        i1 == pushPremium(<<>>, s)
        i2 == pushSettlement(i1, s, schedule)
        i3 == pushProcessing(i2, schedule)
        i4 == pushCPL(i3, s, schedule)
        i5 == pushTIEFF(i4, s, schedule)
        i6 == pushTransfer(i5, s, schedule)
    IN  pushDeedRecording(i6, s, schedule)

\* The items array of calcIhtSellerTitleFees as it stands before the final
\* rounding: the pushes in the source's order.
titleFeeItems(s) ==
    LET schedule == getFeeScheduleForCounty(s.county)
        i1 == pushPremium(<<>>, s)
        i2 == pushSettlement(i1, s, schedule)
        i3 == pushProcessing(i2, schedule)
        i4 == pushCPL(i3, s, schedule)
        i5 == pushTIEFF(i4, s, schedule)
        i6 == pushDeedRecording(i5, s, schedule)
    IN  pushTransfer(i6, s, schedule)

RoundedItems(items) ==
    [i \in 1..Len(items) |-> Item(items[i].label, round2(items[i].amount))]

\* A variant that returns the sum of the amounts as it is, not rounded.
calcIhtSellerTitleFeesUnroundedTotal(s) ==
    LET items == titleFeeItems(s)
    IN  [items |-> RoundedItems(items), total |-> SumAmounts(items)]

calcIhtSellerTitleFees(s) ==
    LET items == titleFeeItems(s)
        total == round2(SumAmounts(items))
    IN  [items |-> RoundedItems(items), total |-> total]

\* The .jsx variant of the aggregator: no schedule lookup, a countyType of
\* "marion" or "other" in place of the county name, literal fee amounts.
titleFeeItemsJsx(s) ==
    LET settlement    == IF s.transactionType = "with_loan" THEN Dollars(390) ELSE Dollars(290)
        deedRecording == IF s.countyType = "marion" THEN Dollars(35) ELSE Dollars(25)
        i1 == PushIf(s.ownerPolicyPremium > 0, <<>>, Item(LabelPremium, s.ownerPolicyPremium))
        i2 == PushIf(s.includeSettlementFee, i1, Item(LabelSettlement, settlement))
        i3 == Append(i2, Item(LabelTitleProcessing, Dollars(175)))
        i4 == Append(i3, Item(LabelClosingProcessing, Dollars(150)))
        i5 == PushIf(s.includeCPL, i4, Item(LabelCPL, Dollars(25)))
        i6 == PushIf(s.includeTIEFF, i5, Item(LabelTIEFF, Dollars(5)))
        i7 == PushIf(s.includeDeedRecording, i6, Item(LabelDeedRecording, deedRecording))
        i8 == PushIf(s.includeDeedRecording /\ s.useSimplifile, i7, Item(LabelSimplifile, 4250))
    IN  PushIf(s.includeTransferFeeSDF, i8, Item(LabelTransfer, Dollars(30)))

calcIhtSellerTitleFeesJsx(s) ==
    LET items == titleFeeItemsJsx(s)
        total == round2(SumAmounts(items))
    IN  [items |-> RoundedItems(items), total |-> total]

\* ---------------------------------------------------------------------
\* Numbers as the program holds them: IEEE-754 binary64
\*
\* A Number is m * 2^e for a natural number m below 2^53. m does not fit the
\* integers of the checker, so it is kept as its digits in base Limb, the
\* lowest first and no zero on top; <<>> is 0. Only Numbers >= 0 occur.
\* ---------------------------------------------------------------------

Limb == 32768

LimbBits == 15

\* The natural number n < 2^31 as digits.
BigOf(n) ==
    IF n = 0 THEN <<>>
    ELSE IF n < Limb THEN <<n>>
    ELSE IF n < Limb * Limb THEN <<n % Limb, n \div Limb>>
    ELSE <<n % Limb, (n \div Limb) % Limb, n \div (Limb * Limb)>>

\* The integer of at most three digits.
BigToInt(a) ==
    (IF Len(a) >= 1 THEN a[1] ELSE 0)
    + (IF Len(a) >= 2 THEN a[2] * Limb ELSE 0)
    + (IF Len(a) >= 3 THEN a[3] * Limb * Limb ELSE 0)

RECURSIVE BigTrim(_)
BigTrim(a) ==
    IF a # <<>> /\ a[Len(a)] = 0 THEN BigTrim(SubSeq(a, 1, Len(a) - 1)) ELSE a

LowLimb(a) == IF a = <<>> THEN 0 ELSE a[1]

HighLimbs(a) == IF a = <<>> THEN <<>> ELSE Tail(a)

RECURSIVE BigAddCarry(_, _, _)
BigAddCarry(a, b, carry) ==
    IF a = <<>> /\ b = <<>> THEN BigOf(carry)
    ELSE <<(LowLimb(a) + LowLimb(b) + carry) % Limb>>
         \o BigAddCarry(HighLimbs(a), HighLimbs(b), (LowLimb(a) + LowLimb(b) + carry) \div Limb)

BigAdd(a, b) == BigAddCarry(a, b, 0)

\* a * k for 1 <= k <= Limb.
RECURSIVE BigMulCarry(_, _, _)
BigMulCarry(a, k, carry) ==
    IF a = <<>> THEN BigOf(carry)
    ELSE <<(a[1] * k + carry) % Limb>> \o BigMulCarry(Tail(a), k, (a[1] * k + carry) \div Limb)

BigMulSmall(a, k) == BigMulCarry(a, k, 0)

\* Quotient and remainder of a by k, 1 <= k <= Limb, from the top digit down.
BigDivStep(high, limb, k) ==
    [q |-> <<(high.r * Limb + limb) \div k>> \o high.q,
     r |-> (high.r * Limb + limb) % k]

RECURSIVE BigDivRem(_, _)
BigDivRem(a, k) ==
    IF a = <<>> THEN [q |-> <<>>, r |-> 0]
    ELSE BigDivStep(BigDivRem(Tail(a), k), a[1], k)

BigDivSmall(a, k) == BigTrim(BigDivRem(a, k).q)

ZeroLimbs(n) == [i \in 1..n |-> 0]

\* a * 2^bits
BigShl(a, bits) ==
    IF a = <<>> THEN <<>>
    ELSE ZeroLimbs(bits \div LimbBits) \o BigMulSmall(a, 2^(bits % LimbBits))

\* The whole part of a / 2^bits.
BigShr(a, bits) ==
    IF bits \div LimbBits >= Len(a) THEN <<>>
    ELSE BigDivSmall(SubSeq(a, bits \div LimbBits + 1, Len(a)), 2^(bits % LimbBits))

\* Bit i of a, the lowest bit being bit 0.
BigBit(a, i) ==
    IF i \div LimbBits >= Len(a) THEN 0
    ELSE (a[i \div LimbBits + 1] \div 2^(i % LimbBits)) % 2

\* One of the n lowest bits of a is set.
BigLowBitsSet(a, n) ==
    \/ \E i \in 1..Min({n \div LimbBits, Len(a)}) : a[i] # 0
    \/ /\ n \div LimbBits < Len(a)
       /\ a[n \div LimbBits + 1] % 2^(n % LimbBits) # 0

\* The number of bits of a digit and of a.
BitsOfLimb(n) == Min({k \in 0..LimbBits : n < 2^k})

BigBitLen(a) == IF a = <<>> THEN 0 ELSE LimbBits * (Len(a) - 1) + BitsOfLimb(a[Len(a)])

\* a * 2^e with the s lowest bits of a rounded away, to nearest, ties to even.
RoundBitsAway(a, e, s) ==
    [m |-> IF BigBit(a, s - 1) = 1 /\ (BigLowBitsSet(a, s - 1) \/ BigBit(a, s) = 1)
           THEN BigAdd(BigShr(a, s), <<1>>)
           ELSE BigShr(a, s),
     e |-> e + s]

\* The Number nearest to a * 2^e.
RoundToNumber(a, e) ==
    IF BigBitLen(a) <= 53 THEN [m |-> a, e |-> e]
    ELSE RoundBitsAway(a, e, BigBitLen(a) - 53)

\* x + y
NumberAddAt(x, y, e) == RoundToNumber(BigAdd(BigShl(x.m, x.e - e), BigShl(y.m, y.e - e)), e)

NumberAdd(x, y) ==
    IF x.m = <<>> THEN y
    ELSE IF y.m = <<>> THEN x
    ELSE NumberAddAt(x, y, Min({x.e, y.e}))

\* x * 100
NumberTimes100(x) == RoundToNumber(BigMulSmall(x.m, 100), x.e)

\* The Number of a decimal numeral of n thousandths, n >= 0: the quotient
\* of n * 2^75 by 1000 with one more bit that tells whether the division
\* left a remainder, rounded.
NumberOfQuotient(d) ==
    RoundToNumber(BigAdd(BigMulSmall(BigTrim(d.q), 2), BigOf(IF d.r # 0 THEN 1 ELSE 0)), -76)

NumberOfThousandths(n) ==
    IF n % 1000 = 0 THEN [m |-> BigOf(n \div 1000), e |-> 0]
    ELSE NumberOfQuotient(BigDivRem(BigShl(BigOf(n), 75), 1000))

\* Number.EPSILON
EPSILON == [m |-> <<1>>, e |-> -52]

\* Math.round(x): the nearest integer, a half rounded up.
MathRound(x) ==
    IF x.e >= 0 THEN BigToInt(BigShl(x.m, x.e))
    ELSE BigToInt(BigShr(BigAdd(x.m, BigShl(<<1>>, -x.e - 1)), -x.e))

\* round2 of a Number: Math.round((n + Number.EPSILON) * 100) / 100. The
\* result is the Number nearest to a whole number of cents, given here as
\* that amount in thousandths.
round2Number(n) == 10 * MathRound(NumberTimes100(NumberAdd(n, EPSILON)))

\* items.reduce((sum, x) => sum + (x.amount || 0), 0) over the first k items.
RECURSIVE SumNumbers(_, _)
SumNumbers(items, k) ==
    IF k = 0 THEN [m |-> <<>>, e |-> 0]
    ELSE NumberAdd(SumNumbers(items, k - 1), NumberOfThousandths(items[k].amount))

\* calcIhtSellerTitleFees with its sum and its roundings in binary64.
calcIhtSellerTitleFeesNumber(s) ==
    [items |-> [i \in 1..Len(titleFeeItems(s)) |->
                   Item(titleFeeItems(s)[i].label,
                        round2Number(NumberOfThousandths(titleFeeItems(s)[i].amount)))],
     total |-> round2Number(SumNumbers(titleFeeItems(s), Len(titleFeeItems(s))))]

\* String(k) of a whole number k >= 0.
RECURSIVE NatText(_)
NatText(k) ==
    IF k < 10 THEN <<DigitChars[k + 1]>>
    ELSE NatText(k \div 10) \o <<DigitChars[(k % 10) + 1]>>

\* ---------------------------------------------------------------------
\* Dates
\*
\* Every Date the program builds is a UTC midnight, so a Date is modelled
\* as its number of days since 1970-01-01 (getTime() / msPerDay).
\* ---------------------------------------------------------------------

isLeapYearEveryFourth(year) == year % 4 = 0

isLeapYear(year) == year % 400 = 0 \/ (year % 4 = 0 /\ year % 100 # 0)

\* Largest time value of a Date, in days (8.64e15 ms).
MaxTimeDays == 100000000

\* Day number of the civil date y-m-d, m in 1..12, any integer d.
DaysFromCivil(y, m, d) ==
    LET yy  == IF m <= 2 THEN y - 1 ELSE y
        era == yy \div 400
        yoe == yy - era * 400
        mp  == IF m > 2 THEN m - 3 ELSE m + 9
        doy == (153 * mp + 2) \div 5 + d - 1
        doe == yoe * 365 + yoe \div 4 - yoe \div 100 + doy
    IN  era * 146097 + doe - 719468

\* Civil date of a day number, in steps: the 400-year era of the day, the
\* day's place in the era, the year of the era, the day's place in the year
\* counted from March 1, and the month and day.
EraOf(z) == z \div 146097

DayOfEra(z) == z - EraOf(z) * 146097

YearOfEra(doe) == (doe - doe \div 1460 + doe \div 36524 - doe \div 146096) \div 365

DayOfMarchYear(doe, yoe) == doe - (365 * yoe + yoe \div 4 - yoe \div 100)

MarchMonth(doy) == (5 * doy + 2) \div 153

CivilOf(era, yoe, doy, mp) ==
    [y |-> yoe + era * 400 + (IF mp >= 10 THEN 1 ELSE 0),
     m |-> IF mp < 10 THEN mp + 3 ELSE mp - 9,
     d |-> doy - (153 * mp + 2) \div 5 + 1]

CivilOfMarchYear(era, yoe, doy) == CivilOf(era, yoe, doy, MarchMonth(doy))

CivilOfEraDay(era, doe, yoe) == CivilOfMarchYear(era, yoe, DayOfMarchYear(doe, yoe))

CivilOfEra(era, doe) == CivilOfEraDay(era, doe, YearOfEra(doe))

CivilFromDays(days) == CivilOfEra(EraOf(days + 719468), DayOfEra(days + 719468))

\* Date.UTC(year, monthIndex, day), in days: a year of 0..99 means
\* 1900 + year, and a month index or day out of range carries over.
DateUTC(year, monthIndex, day) ==
    LET fullYear == IF year \in 0..99 THEN 1900 + year ELSE year
    IN  DaysFromCivil(fullYear + monthIndex \div 12, (monthIndex % 12) + 1, day)

\* Number.isFinite(dt.getTime()): a Date outside the range of time values
\* holds NaN.
IsTimeValue(days) == days >= -MaxTimeDays /\ days <= MaxTimeDays

getUTCFullYear(dt) == CivilFromDays(dt).y

getUTCMonth(dt) == CivilFromDays(dt).m - 1

getUTCDate(dt) == CivilFromDays(dt).d

\* String(n).padStart(2, "0")
padStart2(n) == IF n < 10 THEN <<"0">> \o NatText(n) ELSE NatText(n)

ymd(dt) ==
    LET y == getUTCFullYear(dt)
        m == padStart2(getUTCMonth(dt) + 1)
        d == padStart2(getUTCDate(dt))
    IN  NatText(y) \o <<"-">> \o m \o <<"-">> \o d

addDaysUTC(dt, days) == DateUTC(getUTCFullYear(dt), getUTCMonth(dt), getUTCDate(dt) + days)

daysBetweenExclusiveUTC(start, end) ==
    LET s == DateUTC(getUTCFullYear(start), getUTCMonth(start), getUTCDate(start))
        e == DateUTC(getUTCFullYear(end), getUTCMonth(end), getUTCDate(end))
    IN  IF e < s THEN 0 ELSE e - s

daysBetweenInclusiveUTC(start, end) ==
    LET s == DateUTC(getUTCFullYear(start), getUTCMonth(start), getUTCDate(start))
        e == DateUTC(getUTCFullYear(end), getUTCMonth(end), getUTCDate(end))
    IN  IF e < s THEN 0 ELSE (e - s) + 1

\* v.split("-"): the pieces of v between its hyphens.
RECURSIVE split(_)
split(v) ==
    IF \A i \in 1..Len(v) : v[i] # "-" THEN <<v>>
    ELSE LET k == Min({i \in 1..Len(v) : v[i] = "-"})
         IN  <<SubSeq(v, 1, k - 1)>> \o split(SubSeq(v, k + 1, Len(v)))

\* !Number(x) for one piece of a date text: true when the piece is no
\* number (NaN) and when it is zero. Blank space around the piece is ignored.
IsFalsyNumber(x) ==
    IF NumberIsFinite(trim(x)) THEN NumberValue(trim(x)) = 0 ELSE TRUE

\* Number(x) of a piece that is a number, in thousandths.
NumberOfPiece(x) == NumberValue(trim(x))

\* The integer a Number is cut to when Date.UTC takes it as an argument.
ToInteger(n) == IF n >= 0 THEN n \div 1000 ELSE -((-n) \div 1000)

\* dateFromInput(v): <<dt>> for a Date, <<>> for null.
dateFromInput(v) ==
    LET pieces == split(v)
    IN  IF Len(pieces) < 3 THEN <<>>
        ELSE IF IsFalsyNumber(pieces[1]) \/ IsFalsyNumber(pieces[2]) \/ IsFalsyNumber(pieces[3])
        THEN <<>>
        ELSE LET y  == NumberOfPiece(pieces[1])
                 m  == NumberOfPiece(pieces[2])
                 d  == NumberOfPiece(pieces[3])
                 dt == DateUTC(ToInteger(y), ToInteger(m - 1000), ToInteger(d))
             IN  IF IsTimeValue(dt) THEN <<dt>> ELSE <<>>

\* ---------------------------------------------------------------------
\* Amounts that need not be a whole number of thousandths
\*
\* A quotient by the days of the year is kept exactly, as
\* whole + num / den thousandths with 0 <= num < den.
\* ---------------------------------------------------------------------

Quotient(n, den) == [whole |-> n \div den, num |-> n % den, den |-> den]

AddWhole(k, q) == [q EXCEPT !.whole = q.whole + k]

\* q <= r and q = r for two such amounts.
QLe(q, r) ==
    \/ q.whole < r.whole
    \/ /\ q.whole = r.whole
       /\ IF q.den = r.den THEN q.num <= r.num ELSE q.num * r.den <= r.num * q.den

QEq(q, r) ==
    /\ q.whole = r.whole
    /\ IF q.den = r.den THEN q.num = r.num ELSE q.num * r.den = r.num * q.den

FromWhole(n) == [whole |-> n, num |-> 0, den |-> 1]

QAdd(q, r) ==
    LET den == IF q.den = r.den THEN q.den ELSE q.den * r.den
        num == IF q.den = r.den THEN q.num + r.num ELSE q.num * r.den + r.num * q.den
    IN  [whole |-> q.whole + r.whole + num \div den, num |-> num % den, den |-> den]

QNeg(q) ==
    IF q.num = 0 THEN [q EXCEPT !.whole = -q.whole]
    ELSE [whole |-> -q.whole - 1, num |-> q.den - q.num, den |-> q.den]

QSub(q, r) == QAdd(q, QNeg(r))

\* round2 of whole + num / den: the fraction is below one thousandth, so it
\* cannot carry the amount across a half cent.
round2Quotient(q) == round2(q.whole)

\* ---------------------------------------------------------------------
\* Indiana property tax proration
\* ---------------------------------------------------------------------

\* The last day the seller is charged for.
prorationEndTwoDaysBefore(closingUTC_, through) ==
    IF through = "day_before" THEN addDaysUTC(closingUTC_, -2) ELSE closingUTC_

prorationEndOf(closingUTC_, through) ==
    IF through = "day_before" THEN addDaysUTC(closingUTC_, -1) ELSE closingUTC_

daysInYearOf(year, force365_) ==
    IF force365_ THEN 365 ELSE IF isLeapYear(year) THEN 366 ELSE 365

daysAccruedOf(prorationEnd, jan1) ==
    IF prorationEnd < jan1 THEN 0 ELSE daysBetweenInclusiveUTC(jan1, prorationEnd)

paidTotalOfUnpaid(tax_) ==
    (IF ~tax_.springPaid THEN Max({tax_.springPaidAmount, 0}) ELSE 0)
    + (IF ~tax_.fallPaid THEN Max({tax_.fallPaidAmount, 0}) ELSE 0)

paidTotalOfAll(tax_) ==
    Max({tax_.springPaidAmount, 0}) + Max({tax_.fallPaidAmount, 0})

paidTotalOf(tax_) ==
    (IF tax_.springPaid THEN Max({tax_.springPaidAmount, 0}) ELSE 0)
    + (IF tax_.fallPaid THEN Max({tax_.fallPaidAmount, 0}) ELSE 0)

unpaidPriorYearUnclamped(TY, paidTotal) == TY - paidTotal

unpaidPriorYearOf(TY, paidTotal) == Max({TY - paidTotal, 0})

calcIndianaTaxProration(closingUTC_, tax_) ==
    LET year == getUTCFullYear(closingUTC_)
        jan1 == DateUTC(year, 0, 1)
        prorationEnd == prorationEndOf(closingUTC_, tax_.prorateThrough)
        daysInYear == daysInYearOf(year, tax_.force365)
        TY == Max({tax_.priorYearTax, 0})
        dailyRate == Quotient(TY, daysInYear)
        daysAccrued == daysAccruedOf(prorationEnd, jan1)
        accruedThisYear == Quotient(TY * daysAccrued, daysInYear)
        paidTotal == paidTotalOf(tax_)
        unpaidPriorYear == unpaidPriorYearOf(TY, paidTotal)
        totalDebit == AddWhole(unpaidPriorYear, accruedThisYear)
    IN  [prorationEndYMD |-> ymd(prorationEnd),
         daysInYear      |-> daysInYear,
         dailyRate       |-> dailyRate,
         daysAccrued     |-> daysAccrued,
         accruedThisYear |-> accruedThisYear,
         paidTotal       |-> paidTotal,
         unpaidPriorYear |-> unpaidPriorYear,
         totalDebit      |-> totalDebit]

\* ---------------------------------------------------------------------
\* PDF: the fee detail lines of buildPdf
\* ---------------------------------------------------------------------

\* The digits of a whole number with a comma before every group of three.
RECURSIVE GroupDigits(_)
GroupDigits(digits) ==
    IF Len(digits) <= 3 THEN digits
    ELSE GroupDigits(SubSeq(digits, 1, Len(digits) - 3)) \o <<",">>
         \o SubSeq(digits, Len(digits) - 2, Len(digits))

\* The text of a number of cents >= 0 as US dollars.
CentsText(cents) ==
    <<"$">> \o GroupDigits(NatText(cents \div 100)) \o <<".">> \o padStart2(cents % 100)

\* toMoney(n) of a finite amount in thousandths, in the en-US locale: two
\* decimal places, a half cent rounded away from zero.
toMoney(n) ==
    IF n >= 0 THEN CentsText((n + 5) \div 10)
    ELSE <<"-">> \o CentsText((-n + 5) \div 10)

titleFeesSliceOf8(titleFees) == SubSeq(titleFees, 1, Min({8, Len(titleFees)}))

\* opts.titleFees.slice(0, 12)
titleFeesSlice(titleFees) == SubSeq(titleFees, 1, Min({12, Len(titleFees)}))

\* The fee detail lines buildPdf writes, in the order it writes them: the
\* label on the left, the amount on the right, at the height tfy. The
\* section title stands at tfTop = 398, below the eleven rows of the summary
\* and the net.
buildPdfFeeLines(titleFees) ==
    [i \in 1..Len(titleFeesSlice(titleFees)) |->
        [label  |-> titleFeesSlice(titleFees)[i].label,
         amount |-> toMoney(titleFeesSlice(titleFees)[i].amount),
         tfy    |-> 398 + 18 + 16 * (i - 1)]]

\* ---------------------------------------------------------------------
\* Main app: the form state of IHTSellerNetSheetApp and its memoised values
\* ---------------------------------------------------------------------

VARIABLES
    salePriceInput,           \* useState cells
    county,
    transactionType,
    useSimplifile,
    autoOwnerPolicy,
    ownerPolicyChoice,
    ownerPolicyPremiumInput,
    includeSettlementFee,
    includeCPL,
    includeTIEFF,
    includeDeedRecording,
    includeTransferFeeSDF,
    closingInput,
    listingCommissionType,
    listingCommissionPct,
    listingCommissionFlat,
    buyersCommissionType,
    buyersCommissionPct,
    buyersCommissionFlat,
    mortgagePayoffInput,
    sellerConcessionsInput,
    otherCosts,
    priorYearTaxInput,
    springPaid,
    fallPaid,
    springPaidInput,
    fallPaidInput,
    prorateThrough,
    force365,
    today,                    \* the calendar date new Date() reads
    salePrice,                \* useMemo cells
    ownerPolicyAuto,
    ownerPolicyPremium,
    sellerFeeCalc,
    mortgagePayoff,
    sellerConcessions,
    priorYearTax,
    springPaidAmount,
    fallPaidAmount,
    closingUTC,
    listingCommission,
    buyersCommission,
    totalCommission,
    otherCostsTotal,
    taxSettings,
    tax,
    taxDebitRounded,
    estimatedNet

\* The state cells of the sale price, the county and the title-fee section.
feeInputs == <<salePriceInput, county, transactionType, useSimplifile, autoOwnerPolicy,
               ownerPolicyChoice, ownerPolicyPremiumInput, includeSettlementFee, includeCPL,
               includeTIEFF, includeDeedRecording, includeTransferFeeSDF>>

\* The state cells of the commissions, the payoff, the concessions and the
\* other seller-paid costs.
dealInputs == <<listingCommissionType, listingCommissionPct, listingCommissionFlat,
                buyersCommissionType, buyersCommissionPct, buyersCommissionFlat,
                mortgagePayoffInput, sellerConcessionsInput, otherCosts>>

\* The state cells of the closing date and of the tax section.
taxInputs == <<closingInput, priorYearTaxInput, springPaid, fallPaid, springPaidInput,
               fallPaidInput, prorateThrough, force365>>

inputs == <<feeInputs, dealInputs, taxInputs>>

memos == <<salePrice, ownerPolicyAuto, ownerPolicyPremium, sellerFeeCalc, mortgagePayoff,
           sellerConcessions, priorYearTax, springPaidAmount, fallPaidAmount, closingUTC,
           listingCommission, buyersCommission, totalCommission, otherCostsTotal,
           taxSettings, tax, taxDebitRounded, estimatedNet>>

vars == <<inputs, today, memos>>

\* The argument the app passes to calcIhtSellerTitleFees; its fields are also
\* the dependency list of the sellerFeeCalc memo.
titleFeeSettings ==
    [transactionType       |-> transactionType,
     county                |-> county,
     useSimplifile         |-> useSimplifile,
     ownerPolicyPremium    |-> ownerPolicyPremium,
     includeSettlementFee  |-> includeSettlementFee,
     includeCPL            |-> includeCPL,
     includeTIEFF          |-> includeTIEFF,
     includeDeedRecording  |-> includeDeedRecording,
     includeTransferFeeSDF |-> includeTransferFeeSDF]

\* The .jsx variant's argument for the same form: its countyType state cell
\* holds "marion" for Marion County and "other" for every other county.
titleFeeSettingsJsx ==
    [transactionType       |-> transactionType,
     countyType            |-> IF isMarion(county) THEN "marion" ELSE "other",
     useSimplifile         |-> useSimplifile,
     ownerPolicyPremium    |-> ownerPolicyPremium,
     includeSettlementFee  |-> includeSettlementFee,
     includeCPL            |-> includeCPL,
     includeTIEFF          |-> includeTIEFF,
     includeDeedRecording  |-> includeDeedRecording,
     includeTransferFeeSDF |-> includeTransferFeeSDF]

ownerPolicyPremiumOf(auto, autoChosen, input) ==
    IF auto THEN autoChosen ELSE parseNumber(input)

closingUTCOfToday(input, now) == now

\* The closing date the app computes with: the date the text names, and
\* the current date when the text names none.
closingUTCOf(input, now) ==
    LET dt == dateFromInput(input)
    IN  IF dt # <<>> THEN dt[1] ELSE now

\* amount * (pct / 100) for an amount and a percentage in thousandths.
PercentOf(amount, pct) ==
    LET a == amount \div 100000
        b == amount % 100000
    IN  AddWhole(a * pct, Quotient(b * pct, 100000))

commissionOfPct(type, pct, flat, price) == PercentOf(price, parseNumber(pct))

commissionOf(type, pct, flat, price) ==
    IF type = "pct" THEN PercentOf(price, parseNumber(pct))
    ELSE FromWhole(parseNumber(flat))

RECURSIVE otherCostsTotalOf(_)
otherCostsTotalOf(costs) ==
    IF costs = <<>> THEN 0
    ELSE otherCostsTotalOf(SubSeq(costs, 1, Len(costs) - 1))
         + parseNumber(costs[Len(costs)].amountInput)

\* n / 2 of an amount that is a whole number of cents.
Half(n) == n \div 2

\* amount || Math.max(priorYearTax / 2, 0)
installmentAmountOf(amount, priorTax) ==
    IF amount # 0 THEN amount ELSE Max({Half(priorTax), 0})

taxSettingsOf(priorTax, sPaid, sAmount, fPaid, fAmount, through, f365) ==
    [priorYearTax     |-> priorTax,
     springPaid       |-> sPaid,
     springPaidAmount |-> installmentAmountOf(sAmount, priorTax),
     fallPaid         |-> fPaid,
     fallPaidAmount   |-> installmentAmountOf(fAmount, priorTax),
     prorateThrough   |-> through,
     force365         |-> f365]

estimatedNetOf(price, listing, buyers, payoff, concessions, others, titleFees, taxDebit) ==
    LET net == QSub(QSub(FromWhole(price), listing), buyers)
    IN  round2Quotient(AddWhole(-payoff - concessions - others - titleFees - taxDebit, net))

\* The day the app is opened.
StartDay == DateUTC(2025, 11, 26)

Init ==
    /\ salePriceInput = <<"3", "3", "0", ",", "0", "0", "0">>
    /\ county = <<"M", "a", "r", "i", "o", "n">>
    /\ transactionType = "with_loan"
    /\ useSimplifile = TRUE
    /\ autoOwnerPolicy = TRUE
    /\ ownerPolicyChoice = "mid"
    /\ ownerPolicyPremiumInput = <<"0">>
    /\ includeSettlementFee = TRUE
    /\ includeCPL = TRUE
    /\ includeTIEFF = TRUE
    /\ includeDeedRecording = FALSE
    /\ includeTransferFeeSDF = FALSE
    /\ salePrice = parseNumber(salePriceInput)
    /\ ownerPolicyAuto = calcOwnersPolicyPremium(salePrice, ownerPolicyChoice)
    /\ ownerPolicyPremium =
           ownerPolicyPremiumOf(autoOwnerPolicy, ownerPolicyAuto.chosen, ownerPolicyPremiumInput)
    /\ sellerFeeCalc = calcIhtSellerTitleFees(titleFeeSettings)
    /\ today = StartDay
    /\ closingInput = ymd(addDaysUTC(today, 10))
    /\ listingCommissionType = "pct"
    /\ listingCommissionPct = <<"3">>
    /\ listingCommissionFlat = <<"0">>
    /\ buyersCommissionType = "pct"
    /\ buyersCommissionPct = <<"3">>
    /\ buyersCommissionFlat = <<"0">>
    /\ mortgagePayoffInput = <<"0">>
    /\ sellerConcessionsInput = <<"0">>
    /\ otherCosts = <<[id |-> 1, label |-> "Home warranty", amountInput |-> <<"0">>]>>
    /\ priorYearTaxInput = <<"3", ",", "2", "0", "0">>
    /\ springPaid = FALSE
    /\ fallPaid = FALSE
    /\ springPaidInput = <<"1", ",", "6", "0", "0">>
    /\ fallPaidInput = <<"1", ",", "6", "0", "0">>
    /\ prorateThrough = "day_before"
    /\ force365 = FALSE
    /\ mortgagePayoff = parseNumber(mortgagePayoffInput)
    /\ sellerConcessions = parseNumber(sellerConcessionsInput)
    /\ priorYearTax = parseNumber(priorYearTaxInput)
    /\ springPaidAmount = parseNumber(springPaidInput)
    /\ fallPaidAmount = parseNumber(fallPaidInput)
    /\ closingUTC = closingUTCOf(closingInput, today)
    /\ listingCommission = commissionOf(listingCommissionType, listingCommissionPct,
                                        listingCommissionFlat, salePrice)
    /\ buyersCommission = commissionOf(buyersCommissionType, buyersCommissionPct,
                                       buyersCommissionFlat, salePrice)
    /\ totalCommission = round2Quotient(QAdd(listingCommission, buyersCommission))
    /\ otherCostsTotal = otherCostsTotalOf(otherCosts)
    /\ taxSettings = taxSettingsOf(priorYearTax, springPaid, springPaidAmount, fallPaid,
                                   fallPaidAmount, prorateThrough, force365)
    /\ tax = calcIndianaTaxProration(closingUTC, taxSettings)
    /\ taxDebitRounded = round2Quotient(tax.totalDebit)
    /\ estimatedNet = estimatedNetOf(salePrice, listingCommission, buyersCommission,
                                     mortgagePayoff, sellerConcessions, otherCostsTotal,
                                     sellerFeeCalc.total, taxDebitRounded)

\* Every memoised value of the component body computed from the state cells
\* alone, for a given closing date.
pipelineAt(closing) ==
    LET price    == parseNumber(salePriceInput)
        payoff   == parseNumber(mortgagePayoffInput)
        conc     == parseNumber(sellerConcessionsInput)
        priorTax == parseNumber(priorYearTaxInput)
        sAmount  == parseNumber(springPaidInput)
        fAmount  == parseNumber(fallPaidInput)
        listing  == commissionOf(listingCommissionType, listingCommissionPct,
                                 listingCommissionFlat, price)
        buyers   == commissionOf(buyersCommissionType, buyersCommissionPct,
                                 buyersCommissionFlat, price)
        others   == otherCostsTotalOf(otherCosts)
        auto     == calcOwnersPolicyPremium(price, ownerPolicyChoice)
        premium  == ownerPolicyPremiumOf(autoOwnerPolicy, auto.chosen, ownerPolicyPremiumInput)
        fees     == calcIhtSellerTitleFees([titleFeeSettings EXCEPT !.ownerPolicyPremium = premium])
        settings == taxSettingsOf(priorTax, springPaid, sAmount, fallPaid, fAmount,
                                  prorateThrough, force365)
        breakdown == calcIndianaTaxProration(closing, settings)
        debit    == round2Quotient(breakdown.totalDebit)
    IN  [salePrice          |-> price,
         mortgagePayoff     |-> payoff,
         sellerConcessions  |-> conc,
         priorYearTax       |-> priorTax,
         springPaidAmount   |-> sAmount,
         fallPaidAmount     |-> fAmount,
         closingUTC         |-> closing,
         listingCommission  |-> listing,
         buyersCommission   |-> buyers,
         totalCommission    |-> round2Quotient(QAdd(listing, buyers)),
         otherCostsTotal    |-> others,
         ownerPolicyAuto    |-> auto,
         ownerPolicyPremium |-> premium,
         sellerFeeCalc      |-> fees,
         taxSettings        |-> settings,
         tax                |-> breakdown,
         taxDebitRounded    |-> debit,
         estimatedNet       |-> estimatedNetOf(price, listing, buyers, payoff, conc, others,
                                               fees.total, debit)]

\* The component body run on the state cells on the day now.
pipeline(now) == pipelineAt(closingUTCOf(closingInput, now))

\* What the component holds after its last render.
outputs ==
    [salePrice          |-> salePrice,
     mortgagePayoff     |-> mortgagePayoff,
     sellerConcessions  |-> sellerConcessions,
     priorYearTax       |-> priorYearTax,
     springPaidAmount   |-> springPaidAmount,
     fallPaidAmount     |-> fallPaidAmount,
     closingUTC         |-> closingUTC,
     listingCommission  |-> listingCommission,
     buyersCommission   |-> buyersCommission,
     totalCommission    |-> totalCommission,
     otherCostsTotal    |-> otherCostsTotal,
     ownerPolicyAuto    |-> ownerPolicyAuto,
     ownerPolicyPremium |-> ownerPolicyPremium,
     sellerFeeCalc      |-> sellerFeeCalc,
     taxSettings        |-> taxSettings,
     tax                |-> tax,
     taxDebitRounded    |-> taxDebitRounded,
     estimatedNet       |-> estimatedNet]

otherCostsChangedInLength(prev, next) == Len(next) # Len(prev)

\* The dependency list [otherCosts] of the otherCostsTotal memo: every
\* handler of the list sets a new array.
otherCostsChanged(prev, next) == next # prev

\* The render that follows a state change: each useMemo cell is recomputed
\* when one of the values in its dependency list changed, in the order the
\* component body lists them, and is kept otherwise.
Render ==
    /\ salePrice' =
           IF salePriceInput' # salePriceInput
           THEN parseNumber(salePriceInput') ELSE salePrice
    /\ mortgagePayoff' =
           IF mortgagePayoffInput' # mortgagePayoffInput
           THEN parseNumber(mortgagePayoffInput') ELSE mortgagePayoff
    /\ sellerConcessions' =
           IF sellerConcessionsInput' # sellerConcessionsInput
           THEN parseNumber(sellerConcessionsInput') ELSE sellerConcessions
    /\ priorYearTax' =
           IF priorYearTaxInput' # priorYearTaxInput
           THEN parseNumber(priorYearTaxInput') ELSE priorYearTax
    /\ springPaidAmount' =
           IF springPaidInput' # springPaidInput
           THEN parseNumber(springPaidInput') ELSE springPaidAmount
    /\ fallPaidAmount' =
           IF fallPaidInput' # fallPaidInput
           THEN parseNumber(fallPaidInput') ELSE fallPaidAmount
    /\ closingUTC' =
           IF closingInput' # closingInput
           THEN closingUTCOf(closingInput', today') ELSE closingUTC
    /\ listingCommission' =
           IF \/ listingCommissionType' # listingCommissionType
              \/ listingCommissionPct' # listingCommissionPct
              \/ listingCommissionFlat' # listingCommissionFlat
              \/ salePrice' # salePrice
           THEN commissionOf(listingCommissionType', listingCommissionPct',
                             listingCommissionFlat', salePrice')
           ELSE listingCommission
    /\ buyersCommission' =
           IF \/ buyersCommissionType' # buyersCommissionType
              \/ buyersCommissionPct' # buyersCommissionPct
              \/ buyersCommissionFlat' # buyersCommissionFlat
              \/ salePrice' # salePrice
           THEN commissionOf(buyersCommissionType', buyersCommissionPct',
                             buyersCommissionFlat', salePrice')
           ELSE buyersCommission
    /\ totalCommission' =
           IF ~QEq(listingCommission', listingCommission)
              \/ ~QEq(buyersCommission', buyersCommission)
           THEN round2Quotient(QAdd(listingCommission', buyersCommission'))
           ELSE totalCommission
    /\ otherCostsTotal' =
           IF otherCostsChanged(otherCosts, otherCosts')
           THEN otherCostsTotalOf(otherCosts') ELSE otherCostsTotal
    /\ ownerPolicyAuto' =
           IF salePrice' # salePrice \/ ownerPolicyChoice' # ownerPolicyChoice
           THEN calcOwnersPolicyPremium(salePrice', ownerPolicyChoice') ELSE ownerPolicyAuto
    /\ ownerPolicyPremium' =
           IF \/ autoOwnerPolicy' # autoOwnerPolicy
              \/ ownerPolicyAuto'.chosen # ownerPolicyAuto.chosen
              \/ ownerPolicyPremiumInput' # ownerPolicyPremiumInput
           THEN ownerPolicyPremiumOf(autoOwnerPolicy', ownerPolicyAuto'.chosen,
                                     ownerPolicyPremiumInput')
           ELSE ownerPolicyPremium
    /\ sellerFeeCalc' =
           IF titleFeeSettings' # titleFeeSettings
           THEN calcIhtSellerTitleFees(titleFeeSettings') ELSE sellerFeeCalc
    /\ taxSettings' =
           IF \/ priorYearTax' # priorYearTax
              \/ springPaid' # springPaid
              \/ springPaidAmount' # springPaidAmount
              \/ fallPaid' # fallPaid
              \/ fallPaidAmount' # fallPaidAmount
              \/ prorateThrough' # prorateThrough
              \/ force365' # force365
           THEN taxSettingsOf(priorYearTax', springPaid', springPaidAmount', fallPaid',
                              fallPaidAmount', prorateThrough', force365')
           ELSE taxSettings
    /\ tax' =
           IF closingInput' # closingInput \/ taxSettings' # taxSettings
           THEN calcIndianaTaxProration(closingUTC', taxSettings') ELSE tax
    /\ taxDebitRounded' =
           IF ~QEq(tax'.totalDebit, tax.totalDebit)
           THEN round2Quotient(tax'.totalDebit) ELSE taxDebitRounded
    /\ estimatedNet' =
           IF \/ salePrice' # salePrice
              \/ ~QEq(listingCommission', listingCommission)
              \/ ~QEq(buyersCommission', buyersCommission)
              \/ mortgagePayoff' # mortgagePayoff
              \/ sellerConcessions' # sellerConcessions
              \/ otherCostsTotal' # otherCostsTotal
              \/ sellerFeeCalc'.total # sellerFeeCalc.total
              \/ taxDebitRounded' # taxDebitRounded
           THEN estimatedNetOf(salePrice', listingCommission', buyersCommission',
                               mortgagePayoff', sellerConcessions', otherCostsTotal',
                               sellerFeeCalc'.total, taxDebitRounded')
           ELSE estimatedNet

\* onChange of the sale price field: setSalePriceInput(formatInputMoney(typed)).
setSalePriceInput(typed) ==
    /\ salePriceInput' = formatInputMoney(typed)
    /\ UNCHANGED <<county, transactionType, useSimplifile, autoOwnerPolicy,
                   ownerPolicyChoice, ownerPolicyPremiumInput, includeSettlementFee,
                   includeCPL, includeTIEFF, includeDeedRecording, includeTransferFeeSDF>>
    /\ UNCHANGED <<dealInputs, taxInputs, today>>
    /\ Render

\* onChange of the county select: setCounty(e.target.value).
setCounty(value) ==
    /\ county' = value
    /\ UNCHANGED <<salePriceInput, transactionType, useSimplifile, autoOwnerPolicy,
                   ownerPolicyChoice, ownerPolicyPremiumInput, includeSettlementFee,
                   includeCPL, includeTIEFF, includeDeedRecording, includeTransferFeeSDF>>
    /\ UNCHANGED <<dealInputs, taxInputs, today>>
    /\ Render

\* onClick of a transaction-type pill.
setTransactionType(value) ==
    /\ transactionType' = value
    /\ UNCHANGED <<salePriceInput, county, useSimplifile, autoOwnerPolicy,
                   ownerPolicyChoice, ownerPolicyPremiumInput, includeSettlementFee,
                   includeCPL, includeTIEFF, includeDeedRecording, includeTransferFeeSDF>>
    /\ UNCHANGED <<dealInputs, taxInputs, today>>
    /\ Render

\* onChange of the Simplifile checkbox: setUseSimplifile(e.target.checked).
setUseSimplifile ==
    /\ useSimplifile' = ~useSimplifile
    /\ UNCHANGED <<salePriceInput, county, transactionType, autoOwnerPolicy,
                   ownerPolicyChoice, ownerPolicyPremiumInput, includeSettlementFee,
                   includeCPL, includeTIEFF, includeDeedRecording, includeTransferFeeSDF>>
    /\ UNCHANGED <<dealInputs, taxInputs, today>>
    /\ Render

\* onChange of the auto-calc checkbox: setAutoOwnerPolicy(e.target.checked).
setAutoOwnerPolicy ==
    /\ autoOwnerPolicy' = ~autoOwnerPolicy
    /\ UNCHANGED <<salePriceInput, county, transactionType, useSimplifile,
                   ownerPolicyChoice, ownerPolicyPremiumInput, includeSettlementFee,
                   includeCPL, includeTIEFF, includeDeedRecording, includeTransferFeeSDF>>
    /\ UNCHANGED <<dealInputs, taxInputs, today>>
    /\ Render

\* onChange of the low/mid/high select, rendered only while auto-calc is on.
setOwnerPolicyChoice(value) ==
    /\ autoOwnerPolicy
    /\ ownerPolicyChoice' = value
    /\ UNCHANGED <<salePriceInput, county, transactionType, useSimplifile, autoOwnerPolicy,
                   ownerPolicyPremiumInput, includeSettlementFee,
                   includeCPL, includeTIEFF, includeDeedRecording, includeTransferFeeSDF>>
    /\ UNCHANGED <<dealInputs, taxInputs, today>>
    /\ Render

\* onChange of the manual premium field, rendered only while auto-calc is off.
setOwnerPolicyPremiumInput(typed) ==
    /\ ~autoOwnerPolicy
    /\ ownerPolicyPremiumInput' = formatInputMoney(typed)
    /\ UNCHANGED <<salePriceInput, county, transactionType, useSimplifile, autoOwnerPolicy,
                   ownerPolicyChoice, includeSettlementFee,
                   includeCPL, includeTIEFF, includeDeedRecording, includeTransferFeeSDF>>
    /\ UNCHANGED <<dealInputs, taxInputs, today>>
    /\ Render

\* The five CheckRow handlers of SectionTitleFees.
setIncludeSettlementFee ==
    /\ includeSettlementFee' = ~includeSettlementFee
    /\ UNCHANGED <<salePriceInput, county, transactionType, useSimplifile, autoOwnerPolicy,
                   ownerPolicyChoice, ownerPolicyPremiumInput,
                   includeCPL, includeTIEFF, includeDeedRecording, includeTransferFeeSDF>>
    /\ UNCHANGED <<dealInputs, taxInputs, today>>
    /\ Render

setIncludeCPL ==
    /\ includeCPL' = ~includeCPL
    /\ UNCHANGED <<salePriceInput, county, transactionType, useSimplifile, autoOwnerPolicy,
                   ownerPolicyChoice, ownerPolicyPremiumInput, includeSettlementFee,
                   includeTIEFF, includeDeedRecording, includeTransferFeeSDF>>
    /\ UNCHANGED <<dealInputs, taxInputs, today>>
    /\ Render

setIncludeTIEFF ==
    /\ includeTIEFF' = ~includeTIEFF
    /\ UNCHANGED <<salePriceInput, county, transactionType, useSimplifile, autoOwnerPolicy,
                   ownerPolicyChoice, ownerPolicyPremiumInput, includeSettlementFee,
                   includeCPL, includeDeedRecording, includeTransferFeeSDF>>
    /\ UNCHANGED <<dealInputs, taxInputs, today>>
    /\ Render

setIncludeDeedRecording ==
    /\ includeDeedRecording' = ~includeDeedRecording
    /\ UNCHANGED <<salePriceInput, county, transactionType, useSimplifile, autoOwnerPolicy,
                   ownerPolicyChoice, ownerPolicyPremiumInput, includeSettlementFee,
                   includeCPL, includeTIEFF, includeTransferFeeSDF>>
    /\ UNCHANGED <<dealInputs, taxInputs, today>>
    /\ Render

setIncludeTransferFeeSDF ==
    /\ includeTransferFeeSDF' = ~includeTransferFeeSDF
    /\ UNCHANGED <<salePriceInput, county, transactionType, useSimplifile, autoOwnerPolicy,
                   ownerPolicyChoice, ownerPolicyPremiumInput, includeSettlementFee,
                   includeCPL, includeTIEFF, includeDeedRecording>>
    /\ UNCHANGED <<dealInputs, taxInputs, today>>
    /\ Render

\* How many rows the list of other seller-paid costs grows to.
MaxOtherCosts == 2

\* How many days pass while the app is open.
MaxClockDays == 1

\* How many characters a text handed to parseNumber has.
MaxTextLen == 3

\* ---------------------------------------------------------------------
\* Handlers of the deal inputs and of the tax section
\* ---------------------------------------------------------------------

\* onChange of the closing date field: setClosingInput(e.target.value).
setClosingInput(value) ==
    /\ closingInput' = value
    /\ UNCHANGED <<feeInputs, dealInputs, today, priorYearTaxInput, springPaid, fallPaid,
                   springPaidInput, fallPaidInput, prorateThrough, force365>>
    /\ Render

\* The % and $ buttons of a CommissionRow: setType("pct"), setType("flat").
setListingCommissionType(value) ==
    /\ listingCommissionType' = value
    /\ UNCHANGED <<feeInputs, taxInputs, today, listingCommissionPct,
                   listingCommissionFlat, buyersCommissionType, buyersCommissionPct,
                   buyersCommissionFlat, mortgagePayoffInput, sellerConcessionsInput,
                   otherCosts>>
    /\ Render

\* The percentage field of a CommissionRow, rendered while the type is "pct".
setListingCommissionPct(typed) ==
    /\ listingCommissionType = "pct"
    /\ listingCommissionPct' = formatInputPercent(typed)
    /\ UNCHANGED <<feeInputs, taxInputs, today, listingCommissionType,
                   listingCommissionFlat, buyersCommissionType, buyersCommissionPct,
                   buyersCommissionFlat, mortgagePayoffInput, sellerConcessionsInput,
                   otherCosts>>
    /\ Render

\* The flat amount field of a CommissionRow, rendered while the type is "flat".
setListingCommissionFlat(typed) ==
    /\ listingCommissionType = "flat"
    /\ listingCommissionFlat' = formatInputMoney(typed)
    /\ UNCHANGED <<feeInputs, taxInputs, today, listingCommissionType,
                   listingCommissionPct, buyersCommissionType, buyersCommissionPct,
                   buyersCommissionFlat, mortgagePayoffInput, sellerConcessionsInput,
                   otherCosts>>
    /\ Render

setBuyersCommissionType(value) ==
    /\ buyersCommissionType' = value
    /\ UNCHANGED <<feeInputs, taxInputs, today, listingCommissionType,
                   listingCommissionPct, listingCommissionFlat, buyersCommissionPct,
                   buyersCommissionFlat, mortgagePayoffInput, sellerConcessionsInput,
                   otherCosts>>
    /\ Render

setBuyersCommissionPct(typed) ==
    /\ buyersCommissionType = "pct"
    /\ buyersCommissionPct' = formatInputPercent(typed)
    /\ UNCHANGED <<feeInputs, taxInputs, today, listingCommissionType,
                   listingCommissionPct, listingCommissionFlat, buyersCommissionType,
                   buyersCommissionFlat, mortgagePayoffInput, sellerConcessionsInput,
                   otherCosts>>
    /\ Render

setBuyersCommissionFlat(typed) ==
    /\ buyersCommissionType = "flat"
    /\ buyersCommissionFlat' = formatInputMoney(typed)
    /\ UNCHANGED <<feeInputs, taxInputs, today, listingCommissionType,
                   listingCommissionPct, listingCommissionFlat, buyersCommissionType,
                   buyersCommissionPct, mortgagePayoffInput, sellerConcessionsInput,
                   otherCosts>>
    /\ Render

\* onChange of the mortgage payoff field.
setMortgagePayoffInput(typed) ==
    /\ mortgagePayoffInput' = formatInputMoney(typed)
    /\ UNCHANGED <<feeInputs, taxInputs, today, listingCommissionType,
                   listingCommissionPct, listingCommissionFlat, buyersCommissionType,
                   buyersCommissionPct, buyersCommissionFlat, sellerConcessionsInput,
                   otherCosts>>
    /\ Render

\* onChange of the seller concessions field.
setSellerConcessionsInput(typed) ==
    /\ sellerConcessionsInput' = formatInputMoney(typed)
    /\ UNCHANGED <<feeInputs, taxInputs, today, listingCommissionType,
                   listingCommissionPct, listingCommissionFlat, buyersCommissionType,
                   buyersCommissionPct, buyersCommissionFlat, mortgagePayoffInput,
                   otherCosts>>
    /\ Render

\* The Add button of the other costs: a row is appended. Its id is "c" and
\* the hexadecimal digits of Math.random(), which nothing compares with the
\* ids of the rows present: the model draws any number, 1 being the id "c1"
\* of the first row (Math.random() = 0.0625 gives "c1").
addOtherCost(id) ==
    /\ Len(otherCosts) < MaxOtherCosts
    /\ otherCosts' = Append(otherCosts, [id |-> id, label |-> "Other", amountInput |-> <<"0">>])
    /\ UNCHANGED <<feeInputs, taxInputs, today, listingCommissionType,
                   listingCommissionPct, listingCommissionFlat, buyersCommissionType,
                   buyersCommissionPct, buyersCommissionFlat, mortgagePayoffInput,
                   sellerConcessionsInput>>
    /\ Render

\* The Remove button of a row, rendered while the list has more than one row.
removeOtherCost(id) ==
    /\ Len(otherCosts) > 1
    /\ \E i \in 1..Len(otherCosts) : otherCosts[i].id = id
    /\ otherCosts' = SelectSeq(otherCosts, LAMBDA x : x.id # id)
    /\ UNCHANGED <<feeInputs, taxInputs, today, listingCommissionType,
                   listingCommissionPct, listingCommissionFlat, buyersCommissionType,
                   buyersCommissionPct, buyersCommissionFlat, mortgagePayoffInput,
                   sellerConcessionsInput>>
    /\ Render

\* onChange of the label field of a row.
setOtherCostLabel(id, value) ==
    /\ \E i \in 1..Len(otherCosts) : otherCosts[i].id = id
    /\ otherCosts' = [i \in 1..Len(otherCosts) |->
               IF otherCosts[i].id = id THEN [otherCosts[i] EXCEPT !.label = value]
               ELSE otherCosts[i]]
    /\ UNCHANGED <<feeInputs, taxInputs, today, listingCommissionType,
                   listingCommissionPct, listingCommissionFlat, buyersCommissionType,
                   buyersCommissionPct, buyersCommissionFlat, mortgagePayoffInput,
                   sellerConcessionsInput>>
    /\ Render

\* onChange of the amount field of a row.
setOtherCostAmount(id, typed) ==
    /\ \E i \in 1..Len(otherCosts) : otherCosts[i].id = id
    /\ otherCosts' = [i \in 1..Len(otherCosts) |->
               IF otherCosts[i].id = id
               THEN [otherCosts[i] EXCEPT !.amountInput = formatInputMoney(typed)]
               ELSE otherCosts[i]]
    /\ UNCHANGED <<feeInputs, taxInputs, today, listingCommissionType,
                   listingCommissionPct, listingCommissionFlat, buyersCommissionType,
                   buyersCommissionPct, buyersCommissionFlat, mortgagePayoffInput,
                   sellerConcessionsInput>>
    /\ Render

\* onChange of the prior-year tax field of SectionTaxes.
setPriorYearTaxInput(typed) ==
    /\ priorYearTaxInput' = formatInputMoney(typed)
    /\ UNCHANGED <<feeInputs, dealInputs, today, closingInput, springPaid, fallPaid,
                   springPaidInput, fallPaidInput, prorateThrough, force365>>
    /\ Render

\* The two pills of the proration policy.
setProrateThrough(value) ==
    /\ prorateThrough' = value
    /\ UNCHANGED <<feeInputs, dealInputs, today, closingInput, priorYearTaxInput,
                   springPaid, fallPaid, springPaidInput, fallPaidInput, force365>>
    /\ Render

\* onChange of the 365-day checkbox: setForce365(e.target.checked).
setForce365 ==
    /\ force365' = ~force365
    /\ UNCHANGED <<feeInputs, dealInputs, today, closingInput, priorYearTaxInput,
                   springPaid, fallPaid, springPaidInput, fallPaidInput, prorateThrough>>
    /\ Render

\* The Paid checkbox of a TaxInstallment: onPaid(e.target.checked).
setSpringPaid ==
    /\ springPaid' = ~springPaid
    /\ UNCHANGED <<feeInputs, dealInputs, today, closingInput, priorYearTaxInput, fallPaid,
                   springPaidInput, fallPaidInput, prorateThrough, force365>>
    /\ Render

setFallPaid ==
    /\ fallPaid' = ~fallPaid
    /\ UNCHANGED <<feeInputs, dealInputs, today, closingInput, priorYearTaxInput,
                   springPaid, springPaidInput, fallPaidInput, prorateThrough, force365>>
    /\ Render

\* The amount field of a TaxInstallment, disabled while it is not paid.
setSpringPaidInput(typed) ==
    /\ springPaid
    /\ springPaidInput' = formatInputMoney(typed)
    /\ UNCHANGED <<feeInputs, dealInputs, today, closingInput, priorYearTaxInput,
                   springPaid, fallPaid, fallPaidInput, prorateThrough, force365>>
    /\ Render

setFallPaidInput(typed) ==
    /\ fallPaid
    /\ fallPaidInput' = formatInputMoney(typed)
    /\ UNCHANGED <<feeInputs, dealInputs, today, closingInput, priorYearTaxInput,
                   springPaid, fallPaid, springPaidInput, prorateThrough, force365>>
    /\ Render

\* The calendar date the browser reports moves on to the next day; nothing
\* is rendered for it.
passMidnight ==
    /\ today < StartDay + MaxClockDays
    /\ today' = today + 1
    /\ UNCHANGED <<inputs, memos>>

\* The normalizer called on its own with any text: parseNumber(value).
parseNumberOn(value) ==
    /\ salePriceInput' = value
    /\ salePrice' = parseNumber(value)
    /\ UNCHANGED <<county, transactionType, useSimplifile, autoOwnerPolicy, ownerPolicyChoice,
                   ownerPolicyPremiumInput, includeSettlementFee, includeCPL, includeTIEFF,
                   includeDeedRecording, includeTransferFeeSDF, dealInputs, taxInputs, today,
                   ownerPolicyAuto, ownerPolicyPremium, sellerFeeCalc, mortgagePayoff,
                   sellerConcessions, priorYearTax, springPaidAmount, fallPaidAmount,
                   closingUTC, listingCommission, buyersCommission, totalCommission,
                   otherCostsTotal, taxSettings, tax, taxDebitRounded, estimatedNet>>

\* The engine called on its own, as runTestsOnce and runSelfTests call it:
\* calcIndianaTaxProration(closing, settings).
prorate(closing, settings) ==
    /\ closingUTC' = closing
    /\ taxSettings' = settings
    /\ tax' = calcIndianaTaxProration(closing, settings)
    /\ UNCHANGED <<inputs, today, salePrice, ownerPolicyAuto, ownerPolicyPremium,
                   sellerFeeCalc, mortgagePayoff, sellerConcessions, priorYearTax,
                   springPaidAmount, fallPaidAmount, listingCommission, buyersCommission,
                   totalCommission, otherCostsTotal, taxDebitRounded, estimatedNet>>

\* ---------------------------------------------------------------------
\* Inputs
\* ---------------------------------------------------------------------

\* How many 10,000-dollar units above 1,000,000 the sampled amounts go.
MaxOverUnits == 2

\* How many whitespace characters pad a county text on each side.
MaxPad == 1

\* An amount as a user types it: whole dollars, and three decimals when the
\* amount is not a whole number of dollars.
DecimalText(n) ==
    LET f == n % 1000
    IN  NatText(n \div 1000) \o
        (IF f = 0 THEN <<>>
         ELSE <<".", DigitChars[(f \div 100) + 1], DigitChars[((f \div 10) % 10) + 1],
                DigitChars[(f % 10) + 1]>>)

\* Liability amounts around every row of the chart: both ends of the row and
\* an amount fifty cents past its upper end; for every eighth row also an
\* amount inside the row that has cents.
TableAmounts ==
    UNION {{Dollars(OWNER_POLICY_TABLE[i].lo),
            Dollars(OWNER_POLICY_TABLE[i].hi),
            Dollars(OWNER_POLICY_TABLE[i].hi) + 500} \cup
           (IF i % 8 = 1 THEN {Dollars(OWNER_POLICY_TABLE[i].lo) + Dollars(2500) + 250} ELSE {})
           : i \in 1..Len(OWNER_POLICY_TABLE)}

\* Amounts above the chart: around the start and the end of each unit.
OverAmounts ==
    UNION {{Dollars(1000000 + 10000 * k) + 10,
            Dollars(1000000 + 10000 * k) + Dollars(1),
            Dollars(1000000 + 10000 * k) + Dollars(5000) + 500,
            Dollars(1000000 + 10000 * k) + Dollars(10000) - 10,
            Dollars(1000000 + 10000 * k) + Dollars(10000)} : k \in 0..MaxOverUnits}

LiabilityAmounts == TableAmounts \cup OverAmounts

\* What is typed into the sale price field when the premium lookup is exercised.
TypedLiabilities == {DecimalText(a) : a \in LiabilityAmounts}

\* What is typed into the sale price field of the app.
TypedSalePrices ==
    {<<"$", "6", "0", ",", "0", "0", "0", ".", "5", "0">>,
     <<"1", ",", "0", "1", "o", ",", "0", "0", "1">>}

\* What is typed into the manual premium field.
TypedPremiums ==
    {<<>>,
     <<"1", "0", "0", ".", "0", "0", "5">>,
     <<"1", "2", ".", "3", "4", "4">>,
     <<"$", "1", ",", "2", "5", "0">>,
     <<"1", ".", "2", ".", "3">>}

\* Options of the county select: a sample of IN_COUNTIES.
CountyOptions ==
    {<<"M", "a", "r", "i", "o", "n">>,
     <<"L", "a", "k", "e">>,
     <<"A", "l", "l", "e", "n">>}

\* Texts that name no county of the Valparaiso schedule.
OtherCountyNames ==
    {<<"M", "a", "r", "i", "o", "n">>,
     <<"L", "a", " ", "P", "o", "r", "t", "e">>,
     <<"L", "a", "k", "e", "s">>,
     <<>>,
     <<"S", "t", ".", "J", "o", "s", "e", "p", "h">>,
     <<"a", "k", "e">>}

toUpperCaseText(s) ==
    [i \in 1..Len(s) |->
        IF s[i] \in Range(LowerCaseChars)
        THEN UpperCaseChars[CHOOSE k \in 1..26 : LowerCaseChars[k] = s[i]]
        ELSE s[i]]

LeftPad(k) == [i \in 1..k |-> " "]

RightPad(k) == [i \in 1..k |-> IF i % 2 = 1 THEN "\t" ELSE "\n"]

\* A county name in its own spelling, in upper case and in lower case, each
\* with up to MaxPad blanks before it and up to MaxPad tabs and line breaks
\* after it.
SpellingsOf(names) ==
    {LeftPad(l) \o cased \o RightPad(r) :
        l \in 0..MaxPad, r \in 0..MaxPad,
        cased \in UNION {{n, toUpperCaseText(n), toLowerCase(n)} : n \in names}}

\* County texts handed to getFeeScheduleForCounty.
CountyTexts == SpellingsOf(VALPO_COUNTY_NAMES \cup OtherCountyNames)

\* County texts handed to calcIhtSellerTitleFees.
FeeCountyTexts ==
    {<<"M", "a", "r", "i", "o", "n">>,
     <<" ", "M", "A", "R", "I", "O", "N", "\t">>,
     <<"m", "a", "r", "i", "o", "n">>,
     <<"M", "a", "r", "i", "o", "n", " ", "C", "o", "u", "n", "t", "y">>,
     <<"L", "a", "k", "e">>,
     <<" ", "l", "a", "k", "e">>,
     <<"A", "l", "l", "e", "n">>}

\* Closing dates the engine is called with: the first and the last day of
\* common and leap years, the days around the end of February, and years
\* divisible by 100 and by 400.
ClosingDates ==
    {DateUTC(2026, 0, 1), DateUTC(2026, 0, 2), DateUTC(2026, 0, 10), DateUTC(2025, 11, 31),
     DateUTC(2024, 0, 1), DateUTC(2024, 1, 29), DateUTC(2024, 2, 1), DateUTC(2024, 11, 31),
     DateUTC(2000, 11, 31), DateUTC(1900, 2, 1), DateUTC(2100, 11, 31)}

\* Prior-year tax amounts the engine is called with.
PriorYearTaxes == {-Dollars(1000), 0, Dollars(3650), Dollars(3200) + 10}

\* Installment amounts the engine is called with.
InstallmentAmounts == {-Dollars(500), 0, Dollars(1000), Dollars(5000)}

\* What the closing date field hands over: the empty text of a cleared
\* field and dates in the form YYYY-MM-DD.
TypedClosingDates ==
    {<<>>, <<"2", "0", "2", "6", "-", "0", "1", "-", "1", "0">>, <<"2", "0", "2", "4", "-", "1", "2", "-", "3", "1">>, <<"2", "0", "2", "6", "-", "0", "1", "-", "0", "1">>}

\* Texts handed to dateFromInput: the empty text, dates of the calendar,
\* texts with a zero or non-numeric piece, with too few pieces, and with a
\* day or a month the calendar does not have.
TypedClosingTexts ==
    {<<>>, <<"2", "0", "2", "6", "-", "0", "1", "-", "1", "0">>, <<"2", "0", "2", "4", "-", "0", "2", "-", "2", "9">>, <<"2", "0", "2", "6", "-", "0", "0", "-", "1", "0">>, <<"2", "0", "2", "6", "-", "0", "1", "-", "0", "0">>,
     <<"2", "0", "2", "6", "-", "1", "x", "-", "1", "0">>, <<"2", "0", "2", "6", "-", "0", "1">>, <<"2", "0", "2", "6", "-", "0", "2", "-", "3", "1">>, <<"2", "0", "2", "5", "-", "0", "2", "-", "2", "9">>, <<"2", "0", "2", "6", "-", "0", "4", "-", "3", "1">>,
     <<"2", "0", "2", "6", "-", "1", "3", "-", "0", "1">>}

\* What is typed into the amount fields of the tax section (whole cents).
TypedTaxAmounts == {<<"3", ",", "6", "5", "0">>, <<"0">>, <<"$", "2", ",", "0", "0", "0", ".", "0", "1">>}

TypedNetTaxAmounts == {<<"0">>}

TypedInstallments == {<<"1", ",", "0", "0", "0">>, <<"0">>}

\* Sale prices of the commission lines.
TypedCommissionSalePrices == {<<"1", "0", "0", ".", "0", "1">>}

\* Manual premiums with a third decimal place, and one without.
TypedFeePremiums == {<<"5", "0", "0", ".", "0", "1", "5">>, <<"2", ".", "6", "7", "5">>, <<"1", "0", "0", ".", "0", "0", "5">>, <<"1", "2", ".", "3", "4", "4">>, <<"1", ",", "2", "5", "0">>}

\* What is typed into the percentage and amount fields of the deal.
TypedPercents == {<<"2", ".", "5", " ", "%">>}

TypedDealAmounts == {<<"0", ".", "0", "0", "4">>, <<"1", ",", "2", "5", "0", ".", "5", "0">>}

TypedNetSalePrices == {<<"3", "3", "0", ",", "5", "0", "0", ".", "1", "0">>, <<"9", "9", ",", "9", "9", "9", ".", "9", "9">>}

TypedOtherCostAmounts == {<<"1", "2", ".", "3", "4", "5">>}

\* The ids Math.random() gives to the rows: 1 is "c1", the id of the first
\* row.
OtherCostIds == {1, 2}

OtherCostLabels == {"Survey", "HOA dues"}

\* Characters a text handed to parseNumber is made of.
TextChars == {"1", "5", "-", ".", "$", ",", " ", "a"}

\* ---------------------------------------------------------------------
\* Specifications
\* ---------------------------------------------------------------------

\* The app: every handler of the premium and title-fee sections.
Next ==
    \/ \E typed \in TypedSalePrices : setSalePriceInput(typed)
    \/ \E value \in CountyOptions : setCounty(value)
    \/ \E value \in {"with_loan", "cash"} : setTransactionType(value)
    \/ setUseSimplifile
    \/ setAutoOwnerPolicy
    \/ \E value \in {"mid", "low", "high"} : setOwnerPolicyChoice(value)
    \/ \E typed \in TypedPremiums : setOwnerPolicyPremiumInput(typed)
    \/ setIncludeSettlementFee
    \/ setIncludeCPL
    \/ setIncludeTIEFF
    \/ setIncludeDeedRecording
    \/ setIncludeTransferFeeSDF
    \/ \E value \in TypedClosingDates : setClosingInput(value)
    \/ \E value \in {"pct", "flat"} : setListingCommissionType(value)
    \/ \E typed \in TypedPercents : setListingCommissionPct(typed)
    \/ \E typed \in TypedDealAmounts : setListingCommissionFlat(typed)
    \/ \E value \in {"pct", "flat"} : setBuyersCommissionType(value)
    \/ \E typed \in TypedPercents : setBuyersCommissionPct(typed)
    \/ \E typed \in TypedDealAmounts : setBuyersCommissionFlat(typed)
    \/ \E typed \in TypedDealAmounts : setMortgagePayoffInput(typed)
    \/ \E typed \in TypedDealAmounts : setSellerConcessionsInput(typed)
    \/ \E id \in OtherCostIds : addOtherCost(id)
    \/ \E id \in OtherCostIds : removeOtherCost(id)
    \/ \E id \in OtherCostIds, value \in OtherCostLabels : setOtherCostLabel(id, value)
    \/ \E id \in OtherCostIds, typed \in TypedOtherCostAmounts : setOtherCostAmount(id, typed)
    \/ \E typed \in TypedTaxAmounts : setPriorYearTaxInput(typed)
    \/ \E value \in {"day_before", "closing_date"} : setProrateThrough(value)
    \/ setForce365
    \/ setSpringPaid
    \/ setFallPaid
    \/ \E typed \in TypedInstallments : setSpringPaidInput(typed)
    \/ \E typed \in TypedInstallments : setFallPaidInput(typed)
    \/ passMidnight

Spec == Init /\ [][Next]_vars

\* The premium lookup over amounts around every row of the chart.
NextPremium ==
    \/ \E typed \in TypedLiabilities : setSalePriceInput(typed)
    \/ \E value \in {"mid", "low", "high"} : setOwnerPolicyChoice(value)

SpecPremium == Init /\ [][NextPremium]_vars

\* The schedule resolver over county texts in every spelling.
NextSchedule ==
    \/ \E value \in CountyTexts : setCounty(value)
    \/ setIncludeDeedRecording

SpecSchedule == Init /\ [][NextSchedule]_vars

\* The fee aggregator over every combination of its settings.
NextTitleFees ==
    \/ \E value \in FeeCountyTexts : setCounty(value)
    \/ \E value \in {"with_loan", "cash"} : setTransactionType(value)
    \/ setUseSimplifile
    \/ setAutoOwnerPolicy
    \/ \E typed \in TypedPremiums : setOwnerPolicyPremiumInput(typed)
    \/ setIncludeSettlementFee
    \/ setIncludeCPL
    \/ setIncludeTIEFF
    \/ setIncludeDeedRecording
    \/ setIncludeTransferFeeSDF

SpecTitleFees == Init /\ [][NextTitleFees]_vars

\* The tax engine called on its own: one argument of the call changes at a
\* time.
NextProration ==
    \/ \E closing \in ClosingDates : prorate(closing, taxSettings)
    \/ \E v \in PriorYearTaxes : prorate(closingUTC, [taxSettings EXCEPT !.priorYearTax = v])
    \/ prorate(closingUTC, [taxSettings EXCEPT !.springPaid = ~taxSettings.springPaid])
    \/ prorate(closingUTC, [taxSettings EXCEPT !.fallPaid = ~taxSettings.fallPaid])
    \/ \E v \in InstallmentAmounts :
          prorate(closingUTC, [taxSettings EXCEPT !.springPaidAmount = v])
    \/ \E v \in InstallmentAmounts :
          prorate(closingUTC, [taxSettings EXCEPT !.fallPaidAmount = v])
    \/ \E v \in {"day_before", "closing_date"} :
          prorate(closingUTC, [taxSettings EXCEPT !.prorateThrough = v])
    \/ prorate(closingUTC, [taxSettings EXCEPT !.force365 = ~taxSettings.force365])

SpecProration == Init /\ [][NextProration]_vars

\* The closing date and the tax section of the app, while days pass.
NextTax ==
    \/ \E value \in TypedClosingDates : setClosingInput(value)
    \/ \E typed \in TypedTaxAmounts : setPriorYearTaxInput(typed)
    \/ \E value \in {"day_before", "closing_date"} : setProrateThrough(value)
    \/ setForce365
    \/ setSpringPaid
    \/ setFallPaid
    \/ \E typed \in TypedInstallments : setSpringPaidInput(typed)
    \/ \E typed \in TypedInstallments : setFallPaidInput(typed)
    \/ passMidnight

SpecTax == Init /\ [][NextTax]_vars

\* The closing date field handed texts of every kind, while days pass.
NextClosing ==
    \/ \E value \in TypedClosingTexts : setClosingInput(value)
    \/ \E value \in {"day_before", "closing_date"} : setProrateThrough(value)
    \/ setForce365
    \/ passMidnight

SpecClosing == Init /\ [][NextClosing]_vars

\* Edits of every kind in the form, on one day: field changes, toggle
\* flips, county selection, adding and removing other-cost rows.
NextEdits ==
    \/ \E typed \in {<<"9", "9", ",", "9", "9", "9", ".", "9", "9">>} : setSalePriceInput(typed)
    \/ \E value \in {<<"L", "a", "k", "e">>} : setCounty(value)
    \/ setIncludeCPL
    \/ \E value \in {<<>>, <<"2", "0", "2", "6", "-", "0", "1", "-", "1", "0">>} : setClosingInput(value)
    \/ \E value \in {"pct", "flat"} : setListingCommissionType(value)
    \/ \E id \in OtherCostIds : addOtherCost(id)
    \/ \E id \in OtherCostIds : removeOtherCost(id)
    \/ \E id \in OtherCostIds, typed \in TypedOtherCostAmounts : setOtherCostAmount(id, typed)
    \/ setSpringPaid

SpecEdits == Init /\ [][NextEdits]_vars

\* The two commission lines and the sale price they are taken from.
NextCommission ==
    \/ \E typed \in TypedCommissionSalePrices : setSalePriceInput(typed)
    \/ \E value \in {"pct", "flat"} : setListingCommissionType(value)
    \/ \E typed \in TypedPercents : setListingCommissionPct(typed)
    \/ \E typed \in TypedDealAmounts : setListingCommissionFlat(typed)
    \/ \E value \in {"pct", "flat"} : setBuyersCommissionType(value)
    \/ \E typed \in TypedPercents : setBuyersCommissionPct(typed)
    \/ \E typed \in TypedDealAmounts : setBuyersCommissionFlat(typed)

SpecCommission == Init /\ [][NextCommission]_vars

\* The fee aggregator with a manual premium of more than two decimal places.
NextFeeLines ==
    \/ setAutoOwnerPolicy
    \/ \E typed \in TypedFeePremiums : setOwnerPolicyPremiumInput(typed)
    \/ \E value \in CountyOptions : setCounty(value)
    \/ \E value \in {"with_loan", "cash"} : setTransactionType(value)
    \/ setIncludeSettlementFee
    \/ setIncludeDeedRecording
    \/ setUseSimplifile

SpecFeeLines == Init /\ [][NextFeeLines]_vars

\* The rows of the other costs: the Add button, the Remove button of a row
\* and the two fields of a row.
NextOtherCosts ==
    \/ \E id \in OtherCostIds : addOtherCost(id)
    \/ \E id \in OtherCostIds : removeOtherCost(id)
    \/ \E id \in OtherCostIds, value \in OtherCostLabels : setOtherCostLabel(id, value)
    \/ \E id \in OtherCostIds, typed \in TypedOtherCostAmounts : setOtherCostAmount(id, typed)

SpecOtherCosts == Init /\ [][NextOtherCosts]_vars

\* The normalizer called on its own: the text grows by one character or
\* is emptied.
NextParse ==
    \/ \E c \in TextChars :
          /\ Len(salePriceInput) < MaxTextLen
          /\ parseNumberOn(Append(salePriceInput, c))
    \/ parseNumberOn(<<>>)

SpecParse == Init /\ [][NextParse]_vars

\* The deal inputs of the app and what the net is made of.
NextNet ==
    \/ \E typed \in TypedNetSalePrices : setSalePriceInput(typed)
    \/ \E value \in {"pct", "flat"} : setListingCommissionType(value)
    \/ \E typed \in TypedPercents : setListingCommissionPct(typed)
    \/ \E typed \in TypedDealAmounts : setListingCommissionFlat(typed)
    \/ \E value \in {"pct", "flat"} : setBuyersCommissionType(value)
    \/ \E typed \in TypedDealAmounts : setMortgagePayoffInput(typed)
    \/ \E id \in OtherCostIds : addOtherCost(id)
    \/ \E id \in OtherCostIds : removeOtherCost(id)
    \/ \E id \in OtherCostIds, typed \in TypedOtherCostAmounts : setOtherCostAmount(id, typed)
    \/ \E typed \in TypedNetTaxAmounts : setPriorYearTaxInput(typed)
    \/ setForce365

SpecNet == Init /\ [][NextNet]_vars

\* ---------------------------------------------------------------------
\* Properties of the premium lookup (checked under SpecPremium)
\* ---------------------------------------------------------------------

\* The rows of the chart whose range [lo, hi] contains the amount.
RowsContaining(amt) ==
    {i \in 1..Len(OWNER_POLICY_TABLE) :
        Dollars(OWNER_POLICY_TABLE[i].lo) <= amt /\ amt <= Dollars(OWNER_POLICY_TABLE[i].hi)}

\* C1: when the sale price lies within a row of the chart, the looked-up
\* premium is the row's low band edge for choice "low", its high band edge for
\* "high", and for "mid" the midpoint of the band rounded to cents; at 50,000
\* the three results are 209, 220 and 214.50.
C1_RowBandEdges ==
    /\ \A i \in RowsContaining(salePrice) :
          LET row == OWNER_POLICY_TABLE[i]
          IN  /\ ownerPolicyChoice = "low" => ownerPolicyAuto.chosen = Dollars(row.min)
              /\ ownerPolicyChoice = "high" => ownerPolicyAuto.chosen = Dollars(row.max)
              /\ ownerPolicyChoice = "mid" =>
                    /\ ownerPolicyAuto.chosen % 10 = 0
                    /\ 2 * ownerPolicyAuto.chosen - Dollars(row.min + row.max) \in -9..10
    /\ salePrice = Dollars(50000) =>
          ownerPolicyAuto.chosen =
              CASE ownerPolicyChoice = "low" -> 209000
                [] ownerPolicyChoice = "high" -> 220000
                [] ownerPolicyChoice = "mid" -> 214500

C1_Witness ==
    /\ salePrice = Dollars(50000)
    /\ ownerPolicyChoice = "mid"
    /\ ownerPolicyAuto.chosen = 214500

\* C2: for every sale price from 0 to 1,000,000, with cents or without,
\* exactly one row of the chart contains it, so the lookup does not fall back
\* to the first row.
C2_ExactlyOneRowMatches ==
    (salePrice >= 0 /\ salePrice <= Dollars(1000000)) =>
        /\ Cardinality(RowsContaining(salePrice)) = 1
        /\ findRow(salePrice) # 0

\* C3: the chart's rows are sorted ascending by lo, no two rows overlap, the
\* first row starts at 0, the last row ends at 1,000,000, and min <= max in
\* every row, so every band the lookup returns has min <= max.
C3_TableWellFormed ==
    LET T == OWNER_POLICY_TABLE
        n == Len(OWNER_POLICY_TABLE)
    IN  /\ \A i \in 1..(n - 1) : T[i].lo < T[i + 1].lo
        /\ \A i, j \in 1..n : i < j => T[i].hi < T[j].lo
        /\ \A i \in 1..n : T[i].lo <= T[i].hi
        /\ T[1].lo = 0
        /\ T[n].hi = 1000000
        /\ \A i \in 1..n : T[i].min <= T[i].max
        /\ ownerPolicyAuto.min <= ownerPolicyAuto.max

C3_Witness ==
    /\ salePrice = Dollars(OWNER_POLICY_TABLE[Len(OWNER_POLICY_TABLE)].hi)
    /\ ownerPolicyAuto.mode = "table"
    /\ ownerPolicyAuto.min = Dollars(2558)
    /\ ownerPolicyAuto.max = Dollars(2728)

\* C4: above 1,000,000 the lookup is in mode "above_1m" with
\* min = max = chosen = 2728 + 22 for every started 10,000 over 1,000,000;
\* no larger amount gets a smaller premium; 1,000,001 and 1,010,000 give 2750
\* and 1,010,001 gives 2772.
C4_OverflowStep ==
    /\ salePrice > Dollars(1000000) =>
          LET over  == salePrice - Dollars(1000000)
              units == CHOOSE k \in 1..(MaxOverUnits + 2) :
                           Dollars(10000) * (k - 1) < over /\ over <= Dollars(10000) * k
              p     == Dollars(2728) + Dollars(22) * units
          IN  /\ ownerPolicyAuto = [min |-> p, max |-> p, chosen |-> p, mode |-> "above_1m"]
              /\ \A b \in OverAmounts :
                    b >= salePrice =>
                        calcOwnersPolicyPremium(b, ownerPolicyChoice).chosen
                            >= ownerPolicyAuto.chosen
    /\ salePrice = Dollars(1000001) => ownerPolicyAuto.chosen = Dollars(2750)
    /\ salePrice = Dollars(1010000) => ownerPolicyAuto.chosen = Dollars(2750)
    /\ salePrice = Dollars(1010001) => ownerPolicyAuto.chosen = Dollars(2772)

C4_Witness ==
    /\ salePrice = Dollars(1010001)
    /\ ownerPolicyAuto.mode = "above_1m"
    /\ ownerPolicyAuto.chosen = Dollars(2772)

\* ---------------------------------------------------------------------
\* Properties of the schedule resolver (checked under SpecSchedule)
\* ---------------------------------------------------------------------

\* Two characters that are the same letter in either case, or the same character.
SameLetter(a, b) ==
    \/ a = b
    \/ \E k \in 1..26 : {a, b} = {UpperCaseChars[k], LowerCaseChars[k]}

\* The text is the name, in any casing, between whitespace only.
SpellsName(text, name) ==
    \E l \in 0..Len(text) :
        /\ l + Len(name) <= Len(text)
        /\ \A i \in 1..l : text[i] \in Whitespace
        /\ \A i \in 1..Len(name) : SameLetter(text[l + i], name[i])
        /\ \A i \in (l + Len(name) + 1)..Len(text) : text[i] \in Whitespace

\* C5: for every county text the resolver returns the Valparaiso schedule
\* exactly when the text, trimmed and compared without regard to case, is one
\* of the 14 override counties, and the standard schedule otherwise; the title
\* processing line of the fee list carries the resolved schedule's amount
\* (Lake 225, Marion 175).
C5_ScheduleResolution ==
    LET schedule == getFeeScheduleForCounty(county)
        override == \E name \in VALPO_COUNTY_NAMES : SpellsName(county, name)
    IN  /\ Cardinality(VALPO_COUNTY_NAMES) = 14
        /\ schedule = IF override THEN VALPO_SCHEDULE ELSE STANDARD_SCHEDULE
        /\ \E i \in 1..Len(sellerFeeCalc.items) :
              /\ sellerFeeCalc.items[i].label = LabelTitleProcessing
              /\ sellerFeeCalc.items[i].amount = IF override THEN Dollars(225) ELSE Dollars(175)
        /\ county = <<"L", "a", "k", "e">> => schedule.titleProcessingSeller = Dollars(225)
        /\ county = <<"M", "a", "r", "i", "o", "n">> => schedule.titleProcessingSeller = Dollars(175)

C5_Witness ==
    /\ county = <<" ", "L", "A", "K", "E", "\t">>
    /\ getFeeScheduleForCounty(county) = VALPO_SCHEDULE
    /\ getFeeScheduleForCounty(county) # STANDARD_SCHEDULE

\* ---------------------------------------------------------------------
\* Properties of the fee aggregator (checked under SpecTitleFees)
\* ---------------------------------------------------------------------

HasLine(items, label) == \E i \in 1..Len(items) : items[i].label = label

AmountOf(items, label) == items[CHOOSE i \in 1..Len(items) : items[i].label = label].amount

CanonicalOrder ==
    <<LabelPremium, LabelSettlement, LabelTitleProcessing, LabelClosingProcessing,
      LabelCPL, LabelTIEFF, LabelDeedRecording, LabelSimplifile, LabelTransfer>>

Rank(label) == CHOOSE k \in 1..Len(CanonicalOrder) : CanonicalOrder[k] = label

\* C6: the fee lines appear in the fixed order premium, settlement, title
\* processing, closing processing, CPL, TIEFF, deed recording, e-filing,
\* transfer fee + SDF, whatever lines are switched off; the e-filing line, when
\* present, comes immediately after the deed recording line.
C6_FixedItemOrder ==
    LET items == sellerFeeCalc.items
    IN  /\ \A i \in 1..Len(items) : items[i].label \in Range(CanonicalOrder)
        /\ \A i, j \in 1..Len(items) :
              i < j => Rank(items[i].label) < Rank(items[j].label)
        /\ \A i \in 1..Len(items) :
              items[i].label = LabelSimplifile =>
                  i > 1 /\ items[i - 1].label = LabelDeedRecording

C6_Witness ==
    /\ Len(sellerFeeCalc.items) = 9
    /\ sellerFeeCalc.items[7].label = LabelDeedRecording
    /\ sellerFeeCalc.items[8].label = LabelSimplifile
    /\ sellerFeeCalc.items[9].label = LabelTransfer

\* C7: the premium line is present exactly when the premium is above 0, the
\* two processing lines are always present, and each of the settlement, CPL,
\* TIEFF, deed recording and transfer lines is present exactly when its own
\* toggle is on.
C7_LinePresence ==
    LET items == sellerFeeCalc.items
    IN  /\ HasLine(items, LabelPremium) <=> ownerPolicyPremium > 0
        /\ HasLine(items, LabelTitleProcessing)
        /\ HasLine(items, LabelClosingProcessing)
        /\ HasLine(items, LabelSettlement) <=> includeSettlementFee
        /\ HasLine(items, LabelCPL) <=> includeCPL
        /\ HasLine(items, LabelTIEFF) <=> includeTIEFF
        /\ HasLine(items, LabelDeedRecording) <=> includeDeedRecording
        /\ HasLine(items, LabelTransfer) <=> includeTransferFeeSDF

C7_Witness ==
    /\ ~autoOwnerPolicy
    /\ ownerPolicyPremium = 0
    /\ includeCPL /\ ~includeTIEFF
    /\ ~includeSettlementFee /\ ~includeDeedRecording /\ includeTransferFeeSDF
    /\ Len(sellerFeeCalc.items) = 4

\* C8: with the settlement toggle on, the settlement line's amount is the
\* resolved schedule's settlement constant for the transaction type, in the
\* aggregator and in its .jsx variant alike.
C8_SettlementIsScheduleConstant ==
    includeSettlementFee =>
        LET schedule == getFeeScheduleForCounty(county)
            constant == IF transactionType = "with_loan"
                        THEN schedule.settlementWithLoanSeller
                        ELSE schedule.settlementCashSeller
        IN  /\ AmountOf(sellerFeeCalc.items, LabelSettlement) = constant
            /\ AmountOf(calcIhtSellerTitleFeesJsx(titleFeeSettingsJsx).items, LabelSettlement)
                   = constant

\* C9: with the deed-recording toggle on, the deed recording line carries the
\* schedule's Marion amount exactly when the county text, trimmed and compared
\* without regard to case, is "marion", and the other-county amount otherwise;
\* the e-filing line is present exactly when the deed-recording toggle and the
\* e-filing toggle are both on.
C9_DeedRecordingTier ==
    LET items    == sellerFeeCalc.items
        schedule == getFeeScheduleForCounty(county)
    IN  /\ includeDeedRecording =>
              /\ HasLine(items, LabelDeedRecording)
              /\ AmountOf(items, LabelDeedRecording) =
                     IF SpellsName(county, <<"m", "a", "r", "i", "o", "n">>)
                     THEN schedule.deedRecordingMarion ELSE schedule.deedRecordingOther
        /\ HasLine(items, LabelSimplifile) <=> (includeDeedRecording /\ useSimplifile)
        /\ HasLine(items, LabelSimplifile) =>
              AmountOf(items, LabelSimplifile) = schedule.simplifilePerDoc

C9_Witness ==
    /\ county = <<" ", "M", "A", "R", "I", "O", "N", "\t">>
    /\ includeDeedRecording /\ useSimplifile
    /\ AmountOf(sellerFeeCalc.items, LabelDeedRecording) = Dollars(35)
    /\ HasLine(sellerFeeCalc.items, LabelSimplifile)

ZeroAmount == FromWhole(0)

\* C11: whatever the closing date and the settings, a negative prior-year tax
\* and installments paid beyond it included, the unpaid prior-year balance is
\* max(priorYearTax - paidTotal, 0) and not negative, the accrued amount is not
\* negative, and the total debit is their sum and not negative.
C11_DebitNeverNegative ==
    /\ tax.unpaidPriorYear = Max({taxSettings.priorYearTax - tax.paidTotal, 0})
    /\ tax.unpaidPriorYear >= 0
    /\ QLe(ZeroAmount, tax.accruedThisYear)
    /\ QEq(tax.totalDebit, QAdd(FromWhole(tax.unpaidPriorYear), tax.accruedThisYear))
    /\ QLe(ZeroAmount, tax.totalDebit)

C11_Witness ==
    /\ taxSettings.priorYearTax < 0
    /\ taxSettings.springPaid
    /\ tax.paidTotal > 0
    /\ tax.daysAccrued > 0
    /\ tax.unpaidPriorYear = 0
    /\ QEq(tax.totalDebit, ZeroAmount)

\* C12: the year has 365 days when force365 is set; otherwise 366 exactly
\* when the closing year is divisible by 400, or by 4 and not by 100 (2024 is
\* such a year, 2025 is not). The daily rate times the days of the year is the
\* prior-year tax, taken as zero when it is negative.
C12_DaysInYearAndDailyRate ==
    LET year == getUTCFullYear(closingUTC)
        leap == year % 400 = 0 \/ (year % 4 = 0 /\ year % 100 # 0)
        TY   == IF taxSettings.priorYearTax > 0 THEN taxSettings.priorYearTax ELSE 0
    IN  /\ taxSettings.force365 => tax.daysInYear = 365
        /\ ~taxSettings.force365 => tax.daysInYear = (IF leap THEN 366 ELSE 365)
        /\ isLeapYear(2024) /\ ~isLeapYear(2025)
        /\ tax.dailyRate.den = tax.daysInYear
        /\ tax.dailyRate.whole * tax.daysInYear + tax.dailyRate.num = TY

C12_Witness ==
    /\ getUTCFullYear(closingUTC) = 2100
    /\ ~taxSettings.force365
    /\ tax.daysInYear = 365
    /\ taxSettings.priorYearTax = Dollars(3200) + 10
    /\ tax.dailyRate.num # 0

\* Days of month m of a year.
MonthLength(year, m) ==
    IF m = 2
    THEN (IF year % 400 = 0 \/ (year % 4 = 0 /\ year % 100 # 0) THEN 29 ELSE 28)
    ELSE IF m \in {4, 6, 9, 11} THEN 30 ELSE 31

RECURSIVE DaysBeforeMonth(_, _)
DaysBeforeMonth(year, m) ==
    IF m = 1 THEN 0 ELSE DaysBeforeMonth(year, m - 1) + MonthLength(year, m - 1)

\* The place of a day in its year: 1 for January 1.
DayOfYear(date) == DaysBeforeMonth(date.y, date.m) + date.d

\* C13: no day accrues when the cutoff lies before January 1 of the closing
\* year; otherwise the days from January 1 through the cutoff accrue, both
\* counted (January 1 alone is one day). A January 1 closing under the
\* day-before policy accrues no day; a January 10 closing under the same
\* policy with a tax of 3650 and force365 accrues 9 days and 90.00.
C13_DaysAccrued ==
    LET closing == CivilFromDays(closingUTC)
        dayBefore == taxSettings.prorateThrough = "day_before"
        cutoffBeforeJan1 == dayBefore /\ closing.m = 1 /\ closing.d = 1
    IN  /\ cutoffBeforeJan1 => tax.daysAccrued = 0
        /\ ~cutoffBeforeJan1 =>
               tax.daysAccrued = (IF dayBefore THEN DayOfYear(closing) - 1 ELSE DayOfYear(closing))
        /\ (closing.m = 1 /\ closing.d = 1 /\ ~dayBefore) => tax.daysAccrued = 1
        /\ (/\ closingUTC = DateUTC(2026, 0, 10)
            /\ dayBefore
            /\ taxSettings.priorYearTax = Dollars(3650)
            /\ taxSettings.force365)
           => /\ tax.daysAccrued = 9
              /\ QEq(tax.accruedThisYear, FromWhole(Dollars(90)))

C13_Witness ==
    /\ closingUTC = DateUTC(2026, 0, 10)
    /\ taxSettings.prorateThrough = "day_before"
    /\ taxSettings.priorYearTax = Dollars(3650)
    /\ taxSettings.force365
    /\ tax.daysAccrued = 9
    /\ tax.prorationEndYMD = <<"2", "0", "2", "6", "-", "0", "1", "-", "0", "9">>

\* The breakdown of the same call under the other proration policy.
taxUnder(through) ==
    IF taxSettings.prorateThrough = through THEN tax
    ELSE calcIndianaTaxProration(closingUTC, [taxSettings EXCEPT !.prorateThrough = through])

\* C14: for the same closing date and settings, the closing-date policy
\* accrues exactly one day more than the day-before policy, a January 1
\* closing included, so the accrued amount and the total debit are larger by
\* exactly one daily rate.
C14_PoliciesDifferByOneDay ==
    LET dayBefore == taxUnder("day_before")
        inclusive == taxUnder("closing_date")
    IN  /\ inclusive.daysAccrued = dayBefore.daysAccrued + 1
        /\ QEq(inclusive.dailyRate, dayBefore.dailyRate)
        /\ QEq(inclusive.accruedThisYear, QAdd(dayBefore.accruedThisYear, dayBefore.dailyRate))
        /\ QEq(inclusive.totalDebit, QAdd(dayBefore.totalDebit, dayBefore.dailyRate))

C14_Witness ==
    /\ closingUTC = DateUTC(2024, 0, 1)
    /\ taxSettings.prorateThrough = "closing_date"
    /\ taxSettings.priorYearTax = Dollars(3200) + 10
    /\ tax.daysAccrued = 1
    /\ QEq(tax.accruedThisYear, tax.dailyRate)
    /\ taxUnder("day_before").daysAccrued = 0

\* The breakdown of the same call with the spring or the fall installment
\* not paid.
taxWithSpringUnpaid ==
    calcIndianaTaxProration(closingUTC, [taxSettings EXCEPT !.springPaid = FALSE])

taxWithFallUnpaid ==
    calcIndianaTaxProration(closingUTC, [taxSettings EXCEPT !.fallPaid = FALSE])

QLt(q, r) == QLe(q, r) /\ ~QEq(q, r)

\* C15: a call with an installment paid never has a larger total debit than
\* the same call with that installment not paid, and has a smaller one when
\* the installment's amount is positive and the unpaid call leaves a balance.
C15_PayingNeverRaisesDebit ==
    /\ taxSettings.springPaid =>
           /\ QLe(tax.totalDebit, taxWithSpringUnpaid.totalDebit)
           /\ (taxSettings.springPaidAmount > 0 /\ taxWithSpringUnpaid.unpaidPriorYear > 0)
              => QLt(tax.totalDebit, taxWithSpringUnpaid.totalDebit)
    /\ taxSettings.fallPaid =>
           /\ QLe(tax.totalDebit, taxWithFallUnpaid.totalDebit)
           /\ (taxSettings.fallPaidAmount > 0 /\ taxWithFallUnpaid.unpaidPriorYear > 0)
              => QLt(tax.totalDebit, taxWithFallUnpaid.totalDebit)

C15_Witness ==
    /\ closingUTC = DateUTC(2026, 0, 10)
    /\ taxSettings = [priorYearTax |-> Dollars(3650), springPaid |-> TRUE,
                      springPaidAmount |-> Dollars(1000), fallPaid |-> FALSE,
                      fallPaidAmount |-> Dollars(1000), prorateThrough |-> "day_before",
                      force365 |-> TRUE]
    /\ QEq(tax.totalDebit, FromWhole(Dollars(2740)))
    /\ QEq(taxWithSpringUnpaid.totalDebit, FromWhole(Dollars(3740)))

\* C16: the paid total is the sum of the amounts of the installments that
\* are paid (amounts are money, so not negative); an installment that is not
\* paid adds nothing, and changing its amount changes nothing in the breakdown.
C16_PaidTotalCountsPaidOnly ==
    /\ (taxSettings.springPaidAmount >= 0 /\ taxSettings.fallPaidAmount >= 0) =>
           tax.paidTotal = (IF taxSettings.springPaid THEN taxSettings.springPaidAmount ELSE 0)
                           + (IF taxSettings.fallPaid THEN taxSettings.fallPaidAmount ELSE 0)
    /\ ~taxSettings.springPaid =>
           \A v \in InstallmentAmounts :
               calcIndianaTaxProration(closingUTC, [taxSettings EXCEPT !.springPaidAmount = v]) = tax
    /\ ~taxSettings.fallPaid =>
           \A v \in InstallmentAmounts :
               calcIndianaTaxProration(closingUTC, [taxSettings EXCEPT !.fallPaidAmount = v]) = tax

C16_Witness ==
    /\ taxSettings.springPaid
    /\ ~taxSettings.fallPaid
    /\ taxSettings.springPaidAmount = Dollars(1000)
    /\ taxSettings.fallPaidAmount = Dollars(5000)
    /\ taxSettings.priorYearTax = Dollars(3650)
    /\ tax.paidTotal = Dollars(1000)
    /\ tax.unpaidPriorYear = Dollars(2650)

\* ---------------------------------------------------------------------
\* Net proceeds
\* ---------------------------------------------------------------------

\* What is taken off the sale price, each amount as it is before any
\* rounding of its own: both commissions, the payoff, the concessions, the
\* other costs, the title-fee total and the total debit of the tax breakdown.
deductions ==
    AddWhole(mortgagePayoff + sellerConcessions + otherCostsTotal + sellerFeeCalc.total,
             QAdd(QAdd(listingCommission, buyersCommission), tax.totalDebit))

\* C17: the net is the sale price less the commissions, the payoff, the
\* concessions, the other costs, the title-fee total and the tax total debit,
\* rounded once, as the final difference, with no amount rounded before it is
\* subtracted; nothing floors it, so it is negative when the deductions
\* exceed the sale price.
C17_NetRoundedOnce ==
    /\ estimatedNet = round2Quotient(QSub(FromWhole(salePrice), deductions))
    /\ QLt(FromWhole(salePrice), deductions) => estimatedNet <= 0

\* ---------------------------------------------------------------------
\* Normalizer and rounding
\* ---------------------------------------------------------------------

\* The text parseNumber hands to Number: the dollar signs, commas and blank
\* space taken out.
cleanedSalePriceInput ==
    SelectSeq(salePriceInput, LAMBDA c : c \notin ({"$", ","} \cup Whitespace))

\* A text that is a number in plain decimal notation, with or without sign.
IsDecimalNumeral(s) ==
    LET body == IF s # <<>> /\ s[1] \in {"-", "+"} THEN Tail(s) ELSE s
    IN  /\ \E i \in 1..Len(body) : IsDigit(body[i])
        /\ \A i \in 1..Len(body) : IsDigit(body[i]) \/ body[i] = "."
        /\ Cardinality({i \in 1..Len(body) : body[i] = "."}) <= 1

\* C18: for every text parseNumber returns a number that is not negative,
\* and 0 for a text that is empty or no number once its dollar signs, commas
\* and blank space are taken out.
C18_ParsedNumberNotNegative ==
    /\ salePrice >= 0
    /\ ~IsDecimalNumeral(cleanedSalePriceInput) => salePrice = 0

\* ---------------------------------------------------------------------
\* The pipeline as a function of the input snapshot
\* ---------------------------------------------------------------------

\* The days on which the app may run.
ClockDays == StartDay..(StartDay + MaxClockDays)

\* C19 as stated: the pipeline run on the same input snapshot yields the same
\* output on whatever day it runs, for every snapshot, those with an empty or
\* invalid closing-date text included.
C19_OutputDependsOnSnapshotOnly ==
    \A now \in ClockDays : outputs = pipeline(now)

\* C19 amended: the pipeline run on the same input snapshot yields the same
\* output on whatever day it runs when the closing-date text names a date;
\* when the text is empty or names no date, the output is that of the
\* snapshot with the day the text was evaluated as its closing date.
C19_OutputDependsOnSnapshotAndFallbackDay ==
    /\ dateFromInput(closingInput) # <<>> => \A now \in ClockDays : outputs = pipeline(now)
    /\ dateFromInput(closingInput) = <<>> =>
           /\ closingUTC \in StartDay..today
           /\ outputs = pipelineAt(closingUTC)

C19_Witness ==
    /\ closingInput = <<>>
    /\ closingUTC = StartDay
    /\ today = StartDay + 1
    /\ tax.prorationEndYMD = <<"2", "0", "2", "5", "-", "1", "2", "-", "2", "5">>
    /\ outputs # pipeline(today)

\* ---------------------------------------------------------------------
\* Rounding
\* ---------------------------------------------------------------------

\* Amounts the app holds, in thousandths, before and after rounding, and
\* the same amounts as debits.
AmountsHeld ==
    LET held == {salePrice, mortgagePayoff, otherCostsTotal, listingCommission.whole,
                 buyersCommission.whole, tax.totalDebit.whole, tax.dailyRate.whole,
                 sellerFeeCalc.total, totalCommission, taxDebitRounded, estimatedNet}
    IN  held \cup {-v : v \in held}

IsDigits(x) == Len(x) > 0 /\ \A i \in 1..Len(x) : IsDigit(x[i])

\* The year, month and day a text of the form YYYY-MM-DD is made of.
DatePieces(v) ==
    [y |-> NumberOfPiece(split(v)[1]) \div 1000,
     m |-> NumberOfPiece(split(v)[2]) \div 1000,
     d |-> NumberOfPiece(split(v)[3]) \div 1000]

\* The text names a day of the calendar: three pieces of digits, a month of
\* 1..12 and a day the month has in that year.
NamesCalendarDate(v) ==
    /\ Len(split(v)) = 3
    /\ \A i \in 1..3 : IsDigits(split(v)[i])
    /\ Len(split(v)[1]) = 4
    /\ DatePieces(v).y >= 1
    /\ DatePieces(v).m \in 1..12
    /\ DatePieces(v).d \in 1..MonthLength(DatePieces(v).y, DatePieces(v).m)

\* C21 as stated: a closing-date text that names a day of the calendar is
\* used as entered; every other text (empty, a zero or non-numeric piece, a
\* day the month does not have such as February 31) makes the app compute
\* with the current date, that is with a day the clock has shown since the
\* app was opened.
C21_InvalidDateFallsBackToToday ==
    IF NamesCalendarDate(closingInput)
    THEN closingUTC = DaysFromCivil(DatePieces(closingInput).y, DatePieces(closingInput).m,
                                    DatePieces(closingInput).d)
    ELSE closingUTC \in StartDay..today

\* February 31 is taken as March 3.
C21_Feb31IsMarch3 ==
    /\ closingInput = <<"2", "0", "2", "6", "-", "0", "2", "-", "3", "1">>
    /\ ymd(closingUTC) = <<"2", "0", "2", "6", "-", "0", "3", "-", "0", "3">>
    /\ closingUTC \notin StartDay..today

\* ---------------------------------------------------------------------
\* The memoised values after edits of the form (checked under SpecEdits)
\* ---------------------------------------------------------------------

IsPercentOfAmount(q, amount, pct) ==
    /\ q.den = 100000
    /\ q.num \in 0..99999
    /\ IF amount \in 0..500000 /\ pct \in 0..4000
       THEN q.whole * 100000 + q.num = amount * pct
       ELSE /\ q.whole - (amount \div 100000) * pct = ((amount % 100000) * pct) \div 100000
            /\ q.num = ((amount % 100000) * pct) % 100000

\* A commission line holds what its type says.
IsCommissionLine(line, type, pct, flat) ==
    /\ type = "pct" => IsPercentOfAmount(line, salePrice, parseNumber(pct))
    /\ type = "flat" => line.whole = parseNumber(flat) /\ line.num = 0

CommissionLinesAsEntered ==
    /\ IsCommissionLine(listingCommission, listingCommissionType, listingCommissionPct,
                        listingCommissionFlat)
    /\ IsCommissionLine(buyersCommission, buyersCommissionType, buyersCommissionPct,
                        buyersCommissionFlat)
    /\ estimatedNet =
           round2Quotient(QSub(QSub(FromWhole(salePrice - mortgagePayoff - sellerConcessions
                                              - otherCostsTotal - sellerFeeCalc.total
                                              - taxDebitRounded),
                                    listingCommission),
                               buyersCommission))

\* C23: each commission line is salePrice * pct / 100 when its type is "pct"
\* and the parsed flat amount when its type is "flat", the listing line and
\* the buyer's line each by its own type; the net subtracts both lines; and
\* switching the type of one line leaves the amount of the other line as it
\* was.
C23_CommissionLines ==
    /\ CommissionLinesAsEntered
    /\ [][/\ CommissionLinesAsEntered'
          /\ listingCommissionType' # listingCommissionType =>
                 buyersCommission' = buyersCommission
          /\ buyersCommissionType' # buyersCommissionType =>
                 listingCommission' = listingCommission]_vars

\* A flat listing line of 1,250.50 next to a buyer's line of 2.5 % of 100.01.
C23_Witness ==
    /\ listingCommissionType = "flat"
    /\ listingCommission = FromWhole(1250500)
    /\ buyersCommissionType = "pct"
    /\ parseNumber(buyersCommissionPct) = 2500
    /\ salePrice = 100010
    /\ buyersCommission.whole = 2500
    /\ buyersCommission.num = 25000

\* ---------------------------------------------------------------------
\* Accrued days and the days of the year (checked under SpecProration)
\* ---------------------------------------------------------------------

\* C24 as stated: for every closing date and every settings value the days
\* accrued are at most the days of the year the daily rate is taken over, so
\* the tax accrued this year is at most the prior-year annual tax; also with
\* force365 set, a leap closing year and a closing on December 31.
C24_AccruedWithinYear ==
    /\ tax.daysAccrued <= tax.daysInYear
    /\ QLe(tax.accruedThisYear, FromWhole(Max({taxSettings.priorYearTax, 0})))

\* December 31 of a leap year under the closing-date policy with force365:
\* 366 days accrue at a rate of a 365th of the tax a day.
C24_LeapYearEndForce365 ==
    /\ closingUTC = DateUTC(2024, 11, 31)
    /\ taxSettings.prorateThrough = "closing_date"
    /\ taxSettings.force365
    /\ taxSettings.priorYearTax = Dollars(3650)
    /\ tax.daysAccrued = 366
    /\ tax.daysInYear = 365
    /\ QEq(tax.accruedThisYear, FromWhole(Dollars(3660)))

\* ---------------------------------------------------------------------
\* Installments paid with an amount of zero (checked under SpecTax)
\* ---------------------------------------------------------------------

\* The installment is ticked as paid and the text of its amount parses to 0.
springPaidWithZero == springPaid /\ parseNumber(springPaidInput) = 0

fallPaidWithZero == fallPaid /\ parseNumber(fallPaidInput) = 0

\* C25 as stated: in the app, an installment that is marked paid with an
\* entered amount of 0 adds nothing to paidTotal, so the total debit is the
\* one of the same form with the installment not marked paid.
C25_PaidWithZeroAddsNothing ==
    /\ (springPaidWithZero /\ (fallPaidWithZero \/ ~fallPaid)) => tax.paidTotal = 0
    /\ (fallPaidWithZero /\ (springPaidWithZero \/ ~springPaid)) => tax.paidTotal = 0
    /\ springPaidWithZero =>
           QEq(tax.totalDebit,
               calcIndianaTaxProration(closingUTC,
                   taxSettingsOf(priorYearTax, FALSE, springPaidAmount, fallPaid,
                                 fallPaidAmount, prorateThrough, force365)).totalDebit)
    /\ fallPaidWithZero =>
           QEq(tax.totalDebit,
               calcIndianaTaxProration(closingUTC,
                   taxSettingsOf(priorYearTax, springPaid, springPaidAmount, FALSE,
                                 fallPaidAmount, prorateThrough, force365)).totalDebit)

\* The spring installment of a tax of 3,200 paid with an amount of 0 counts
\* as 1,600 paid.
C25_ZeroCountsAsHalf ==
    /\ priorYearTaxInput = <<"3", ",", "2", "0", "0">>
    /\ springPaid
    /\ springPaidInput = <<"0">>
    /\ ~fallPaid
    /\ taxSettings.springPaidAmount = Dollars(1600)
    /\ tax.paidTotal = Dollars(1600)
    /\ tax.unpaidPriorYear = Dollars(1600)

\* ---------------------------------------------------------------------
\* The fee lines and their total (checked under SpecFeeLines)
\* ---------------------------------------------------------------------

\* C26 as stated: for every settings value, a manual premium with more than
\* two decimal places included, the total that calcIhtSellerTitleFees
\* returns is the sum of the rounded item amounts it returns, so the lines
\* shown add up to the total shown.
C26_LinesAddUpToTotal ==
    calcIhtSellerTitleFeesNumber(titleFeeSettings).total
        = SumAmounts(calcIhtSellerTitleFeesNumber(titleFeeSettings).items)

\* A manual premium of 500.015 with the other settings as the app starts:
\* the premium line is 500.02, the other lines are 550.00, the total is
\* 1,050.01.
C26_TotalOneCentShort ==
    /\ ~autoOwnerPolicy
    /\ ownerPolicyPremiumInput = <<"5", "0", "0", ".", "0", "1", "5">>
    /\ calcIhtSellerTitleFeesNumber(titleFeeSettings).items[1].amount = 500020
    /\ SumAmounts(calcIhtSellerTitleFeesNumber(titleFeeSettings).items) = 1050020
    /\ calcIhtSellerTitleFeesNumber(titleFeeSettings).total = 1050010
    /\ sellerFeeCalc.total = 1050020

\* ---------------------------------------------------------------------
\* The fee lines of the PDF (checked under SpecTitleFees)
\* ---------------------------------------------------------------------

\* C27: calcIhtSellerTitleFees returns between 2 and 9 items, so the
\* cut-off of 12 fee lines drops none: buildPdf writes one line for every
\* item, with the item's label and amount, in the order of the items, each
\* line below the one before.
C27_PdfWritesEveryFeeItem ==
    /\ Len(sellerFeeCalc.items) \in 2..9
    /\ Len(buildPdfFeeLines(sellerFeeCalc.items)) = Len(sellerFeeCalc.items)
    /\ \A i \in 1..Len(sellerFeeCalc.items) :
           /\ buildPdfFeeLines(sellerFeeCalc.items)[i].label = sellerFeeCalc.items[i].label
           /\ buildPdfFeeLines(sellerFeeCalc.items)[i].amount
                  = toMoney(sellerFeeCalc.items[i].amount)
           /\ i > 1 => buildPdfFeeLines(sellerFeeCalc.items)[i].tfy
                           > buildPdfFeeLines(sellerFeeCalc.items)[i - 1].tfy

\* All nine items: the ninth line of the PDF is the transfer fee.
C27_Witness ==
    /\ Len(sellerFeeCalc.items) = 9
    /\ Len(buildPdfFeeLines(sellerFeeCalc.items)) = 9
    /\ buildPdfFeeLines(sellerFeeCalc.items)[9].label = LabelTransfer
    /\ buildPdfFeeLines(sellerFeeCalc.items)[9].amount = <<"$", "3", "0", ".", "0", "0">>
    /\ buildPdfFeeLines(sellerFeeCalc.items)[1].amount = <<"$", "1", ",", "0", "5", "5", ".", "0", "0">>

\* ---------------------------------------------------------------------
\* The rows of the other costs (checked under SpecOtherCosts)
\* ---------------------------------------------------------------------

\* The list rows without its row at place k.
WithoutRow(rows, k) == SubSeq(rows, 1, k - 1) \o SubSeq(rows, k + 1, Len(rows))

\* C28 as stated: after any sequence of Add and Remove the list of other
\* costs has at least one row, and a removal deletes exactly one row, the
\* one with the given id, and leaves the other rows and their order as they
\* were.
C28_AlwaysOneRow ==
    /\ Len(otherCosts) >= 1
    /\ [][/\ Len(otherCosts') >= 1
          /\ Len(otherCosts') < Len(otherCosts) =>
                 \E k \in 1..Len(otherCosts) : otherCosts' = WithoutRow(otherCosts, k)]_vars

\* Two rows with the id of the first row, and the list after Remove on one
\* of them.
C28_TwoRowsOfOneId ==
    /\ Len(otherCosts) = 2
    /\ otherCosts[1].id = otherCosts[2].id

C28_NoRowLeft == otherCosts = <<>>

\* ---------------------------------------------------------------------
\* The premium as the liability grows (checked under SpecPremium)
\* ---------------------------------------------------------------------

\* C29 as stated: for each choice of low, mid and high the premium chosen
\* does not fall as the liability amount grows, from row to row, for amounts
\* that are not whole dollars, and past 1,000,000: no larger amount gets a
\* smaller premium than the sale price at hand.
C29_PremiumNeverFalls ==
    \A b \in LiabilityAmounts :
        (salePrice >= 0 /\ b >= salePrice) =>
            calcOwnersPolicyPremium(b, ownerPolicyChoice).chosen >= ownerPolicyAuto.chosen

\* 50,001 lies in the second row of the chart and gets its band; the
\* larger amount 60,000.50 lies in no row and gets the band of the first row.
C29_LargerAmountSmallerPremium ==
    /\ salePrice = Dollars(50001)
    /\ ownerPolicyAuto.chosen
           > calcOwnersPolicyPremium(Dollars(60000) + 500, ownerPolicyChoice).chosen
    /\ calcOwnersPolicyPremium(Dollars(60000) + 500, ownerPolicyChoice).min = Dollars(209)

\* ---------------------------------------------------------------------
\* The two variants of the fee aggregator (checked under SpecTitleFees)
\* ---------------------------------------------------------------------

\* C30 as stated: for every county of the standard schedule, with the
\* countyType of the .jsx variant "marion" for Marion and "other" otherwise
\* and the remaining settings the same, calcIhtSellerTitleFees of part_000
\* and of the .jsx variant return the same items and the same total.
C30_VariantsAgree ==
    getFeeScheduleForCounty(county) = STANDARD_SCHEDULE =>
        /\ sellerFeeCalc.items = calcIhtSellerTitleFeesJsx(titleFeeSettingsJsx).items
        /\ sellerFeeCalc.total = calcIhtSellerTitleFeesJsx(titleFeeSettingsJsx).total

\* A cash sale in Allen county with the settlement fee: 145 in part_000,
\* 290 in the .jsx variant.
C30_SettlementDiffers ==
    /\ county = <<"A", "l", "l", "e", "n">>
    /\ transactionType = "cash"
    /\ includeSettlementFee
    /\ AmountOf(sellerFeeCalc.items, LabelSettlement) = Dollars(145)
    /\ AmountOf(calcIhtSellerTitleFeesJsx(titleFeeSettingsJsx).items, LabelSettlement)
           = Dollars(290)
    /\ calcIhtSellerTitleFeesJsx(titleFeeSettingsJsx).total - sellerFeeCalc.total = Dollars(145)
====
